---- MODULE Spec2Model ----
(***************************************************************************)
(* A model of the scraping scripts of this repository: the ranked-list     *)
(* position scan (fractal_refine / fractal_headset), the RUGV_aov          *)
(* spreadsheet upsert (benuta_aov / trendcarpet_aov) and the EPC cell      *)
(* parser (adtraction_epc).  Each script is a program of its own; the     *)
(* variable prog says which one a behaviour runs.                          *)
(***************************************************************************)
EXTENDS Integers, Sequences, FiniteSets, TLC

VARIABLES
    prog,        \* which script this behaviour runs
    pc,          \* where the script is: "run", "returned", "raised"
    max_pages,   \* find_global_ranks: the caller's page budget
    pageno,      \* find_global_ranks: the page being fetched next (1-based)
    global_pos,  \* find_global_ranks: the position counter
    ranks,       \* pattern name -> position, or None
    pages,       \* the tile lists fetched so far, in order (what the site displayed)
    wbook,       \* data.xlsx: whether the file and sheet RUGV_aov exist, and the sheet
    now,         \* the wall clock: a date and a time of day
    epc_text,    \* the text of the EPC cell being read
    parsed,      \* what parse_epc_cell returned for it
    iso,         \* the currency code the observation was normalised to
    rates,       \* EPC aggregates: the mapping sek_rates returned
    unit,        \* EPC aggregates: units of work done so far
    unit_cc,     \* EPC aggregates: the country of the last unit
    raw,         \* EPC aggregates: the observations scraped for the last unit
    accepted,    \* EPC aggregates: aggregate name -> the values it was computed from
    total_values, \* EPC aggregates: the values of the Total column
    cells,       \* EPC aggregates: aggregate name -> the count cell written
    saved,       \* the data rows the run saved to its sheet
    html,        \* adtraction statistics: the page the last run fetched
    exit_code,   \* adtraction statistics: the exit code of the last run; None before it
    tasks,       \* page fetches: the state and result of each fetch of the run
    out_row,     \* page fetches: the cells of the run's row filled so far
    disk,        \* workbook writers: the workbook file
    mem,         \* workbook writers: process -> the workbook it loaded and the write it is in
    writes,      \* workbook writers: process -> the writes it has completed
    acked,       \* workbook writers: process -> the cells and rows its completed writes saved
    store,       \* sitemap changes: the pages table, URL -> content hash
    report,      \* sitemap changes: the report rows of the run (per_run_rows)
    fetched,     \* sitemap changes: the last candidate fetched and the number of fetches
    site,        \* sitemap crawl: what each sitemap URL serves
    crawl,       \* sitemap crawl: seen_sitemaps, the calls of process_sitemap in progress, main's list
    changes,     \* sitemap crawl: the rows of the changes tables
    xlsx,        \* header sheets: whether the file and the sheet exist, and the rows of the sheet
    args,        \* header sheets: the list the last call was given
    monthly,     \* run_monthly: the scripts in place, the calls of run_script so far, the scripts started, all_ok and the last line printed
    summary, \* fractal_refine: the fields of the summary line main printed
    runs  \* shared sheet: the scripts that have run today, in order, with the values each computed

rankVars == <<prog, pc, max_pages, pageno, global_pos, ranks, pages>>
sheetVars == <<wbook, now>>
epcVars == <<epc_text, parsed, iso>>
aggVars == <<rates, unit, unit_cc, raw, accepted, total_values, cells>>

vars == <<prog, pc, max_pages, pageno, global_pos, ranks, pages, wbook, now,
         epc_text, parsed, iso, rates, unit, unit_cc, raw, accepted,
         total_values, cells, saved, html, exit_code, tasks, out_row,
         disk, mem, writes, acked, store, report, fetched,
         site, crawl, changes, xlsx, args,
         monthly,
         summary,
         runs>>

\* what an action of one script leaves alone: the state of the others
otherThanRank == <<sheetVars, epcVars, aggVars, html, exit_code, tasks, out_row, disk, mem, writes, acked, store, report, fetched, site, crawl, changes, xlsx, args, monthly, runs>>
otherThanSheet == <<rankVars, epcVars, aggVars, saved, html, exit_code, tasks, out_row, disk, mem, writes, acked, store, report, fetched, site, crawl, changes, xlsx, args, monthly, summary, runs>>
otherThanEpc == <<max_pages, pageno, global_pos, ranks, pages, sheetVars, aggVars, saved, html, exit_code, tasks, out_row, disk, mem, writes, acked, store, report, fetched, site, crawl, changes, xlsx, args, monthly, summary, runs>>
otherThanAgg == <<max_pages, pageno, global_pos, ranks, pages, sheetVars, epcVars, saved, html, exit_code, tasks, out_row, disk, mem, writes, acked, store, report, fetched, site, crawl, changes, xlsx, args, monthly, summary, runs>>
otherThanStats == <<max_pages, pageno, global_pos, ranks, pages, epcVars, aggVars, saved, tasks, out_row, disk, mem, writes, acked, store, report, fetched, site, crawl, changes, xlsx, args, monthly, summary, runs>>
otherThanFetch == <<max_pages, pageno, global_pos, ranks, pages, sheetVars, epcVars, aggVars,
                    html, exit_code, disk, mem, writes, acked, store, report, fetched, site, crawl, changes, xlsx, args, monthly, summary, runs>>
otherThanWb == <<max_pages, pageno, global_pos, ranks, pages, sheetVars, epcVars, aggVars,
                 saved, html, exit_code, tasks, out_row, store, report, fetched, site, crawl, changes, xlsx, args, monthly, summary, runs>>
otherThanLog == <<max_pages, pageno, global_pos, ranks, pages, sheetVars, epcVars, aggVars,
                  saved, html, exit_code, tasks, out_row, mem, writes, acked, site, crawl, changes, xlsx, args, monthly, summary, runs>>
otherThanHdr == <<max_pages, pageno, global_pos, ranks, pages, sheetVars, epcVars, aggVars,
                  saved, html, exit_code, tasks, out_row, disk, mem, writes, acked,
                  store, report, fetched, site, crawl, changes, monthly, summary, runs>>
otherThanShared == <<max_pages, pageno, global_pos, ranks, pages, epcVars, aggVars,
                     saved, html, exit_code, tasks, out_row, disk, mem, writes, acked,
                     store, report, fetched, site, crawl, changes, xlsx, args, monthly, summary>>
otherThanMonthly == <<max_pages, pageno, global_pos, ranks, pages, sheetVars, epcVars, aggVars,
                      saved, html, exit_code, tasks, out_row, disk, mem, writes, acked,
                      store, report, fetched, site, crawl, changes, xlsx, args, summary, runs>>
otherThanCrawl == <<max_pages, pageno, global_pos, ranks, pages, wbook, epcVars, aggVars,
                    saved, html, exit_code, tasks, out_row, mem, writes, acked, fetched, xlsx, args, monthly, summary, runs>>

(***************************************************************************)
(* Bounds of the model.                                                    *)
(***************************************************************************)
MaxPagesBound == 2      \* max_pages is drawn from 1..MaxPagesBound
MaxCore == 2            \* tiles of a listing page besides its run of filler tiles
MaxTiles == 3           \* tiles of a single-page listing
MaxVal == 2             \* an average order value is drawn from 1..MaxVal
MaxDays == 2            \* days the clock runs through
MaxMinute == 2          \* minutes of a day
MaxObs == 2             \* observations scraped for a unit of work
MaxUnits == 1           \* units of work of a run of an EPC program
MaxMarkets == 2         \* markets of ORDER a run measures; a run has 2 * MaxMarkets fetches
MaxCols == 2            \* value columns of the EPC sheet
MaxWrites == 2          \* writes of a process to the workbook
MaxFetches == 3         \* candidate pages fetched in a behaviour
MaxRows == 3            \* data rows of a log after which the script is not started again

(***************************************************************************)
(* Text.  A text is a sequence of whitespace-separated tokens; str.lower,  *)
(* the trademark replacement and the substring test are given by what they *)
(* do to the tokens of the vocabulary.                                     *)
(***************************************************************************)
None == 0

Lower(tok) ==
    CASE tok = "Sponsored" -> "sponsored"
      [] tok = "ADVERTISEMENT" -> "advertisement"
      [] tok = "Fractal" -> "fractal"
      [] tok = "Design" -> "design"
      [] tok = "Refine" -> "refine"
      [] tok = "Scape" -> "scape"
      [] tok = "Dark" -> "dark"
      [] tok = "Fractal(R)" -> "fractal(r)"
      [] tok = "Refine(TM)" -> "refine(tm)"
      [] OTHER -> tok

LowerText(toks) == [i \in 1..Len(toks) |-> Lower(toks[i])]

\* .replace(registered, " ").replace(trademark, " "): the mark is cut off the word
ReplaceTM(tok) ==
    CASE tok = "Refine(TM)" -> "Refine"
      [] tok = "Fractal(R)" -> "Fractal"
      [] OTHER -> tok

ReplaceTMText(toks) == [i \in 1..Len(toks) |-> ReplaceTM(toks[i])]

\* the words of the vocabulary that hold a needle without being it
SubstrPairs ==
    { <<"fractals", "fractal">>, <<"refined", "refine">>, <<"armchair", "chair">>,
      <<"darkness", "dark">>,
      <<"landscape", "scape">>, <<"lightgray", "light">>, <<"lightgray", "gray">>,
      <<"fractal(r)", "fractal">>, <<"refine(tm)", "refine">> }

\* needle in word
Contains(word, needle) == word = needle \/ <<word, needle>> \in SubstrPairs

\* needle in txt, for a needle without whitespace
InText(needle, toks) == \E i \in 1..Len(toks) : Contains(toks[i], needle)

looks_sponsored_text(txt) ==
    LET t == LowerText(txt)
    IN  InText("sponsored", t) \/ InText("advertisement", t)

(***************************************************************************)
(* Regular expressions of the shape  \bw1\b.*\bw2\b.* ... : a sequence of  *)
(* elements matched left to right, re.S | re.I.  An element is a set of    *)
(* alternatives, matched as whole words (\b on both sides) or anywhere     *)
(* inside a word (no \b).                                                  *)
(***************************************************************************)
W(ws) == [words |-> ws, whole |-> TRUE]
Sub(ws) == [words |-> ws, whole |-> FALSE]

\* a trademark sign is no word character: \b falls between the word and the sign
MarkFree(word) ==
    CASE word = "fractal(r)" -> "fractal"
      [] word = "refine(tm)" -> "refine"
      [] OTHER -> word

ElemMatch(e, tok) ==
    IF e.whole THEN MarkFree(Lower(tok)) \in e.words
    ELSE \E w \in e.words : Contains(Lower(tok), w)

RECURSIVE SearchFrom(_, _, _, _)
SearchFrom(pat, k, toks, i) ==
    IF k > Len(pat) THEN TRUE
    ELSE \E j \in i..Len(toks) :
            ElemMatch(pat[k], toks[j]) /\ SearchFrom(pat, k + 1, toks, j + 1)

\* pat.search(txt)
PatSearch(pat, toks) == SearchFrom(pat, 1, toks, 1)

(***************************************************************************)
(* The tiles a listing page can display.  A tile is named by its kind; the *)
(* kind gives what the browser returns for it: whether inner_text() of the *)
(* tile succeeds, the text of the tile and of its a.item-title.            *)
(***************************************************************************)
T(title, fulltext) == [readable |-> TRUE, title |-> title, fulltext |-> fulltext]

Tile(kind) ==
    CASE kind = "other"   -> T(<<>>, <<"acme", "widget">>)
      [] kind = "spFD"    -> T(<<>>, <<"Sponsored", "fractal", "refine", "chair", "fabric", "dark">>)
      [] kind = "adv"     -> T(<<>>, <<"ADVERTISEMENT", "fractal", "refine", "chair", "mesh", "light">>)
      [] kind = "FD"      -> T(<<"Fractal(R)", "Refine(TM)">>,
                               <<"Fractal(R)", "Refine(TM)", "chair", "fabric", "Dark">>)
      [] kind = "ML"      -> T(<<>>, <<"fractal", "refine", "chair", "mesh", "light">>)
      [] kind = "ALL"     -> T(<<>>, <<"fractal", "refine", "chair", "fabric", "mesh",
                                       "alcantara", "dark", "light">>)
      [] kind = "colour"  -> T(<<>>, <<"acme", "chair", "fabric", "dark">>)
      [] kind = "near"    -> T(<<>>, <<"fractals", "refined", "armchair", "fabric", "dark">>)
      [] kind = "nochair" -> T(<<>>, <<"fractal", "refine", "fabric", "darkness">>)
      [] kind = "empty"   -> T(<<>>, <<>>)
      [] kind = "scD"     -> T(<<"Fractal", "Design", "Scape", "Dark">>,
                               <<"Fractal", "Design", "Scape", "Dark">>)
      [] kind = "scL"     -> T(<<>>, <<"fractal", "scape", "lightgray">>)
      [] kind = "scBoth"  -> T(<<>>, <<"fractal", "scape", "dark", "light">>)
      [] kind = "spScD"   -> T(<<>>, <<"Sponsored", "fractal", "scape", "dark">>)
      [] kind = "nearSc"  -> T(<<>>, <<"fractal", "landscape", "dark">>)
      [] kind = "colour2" -> T(<<>>, <<"acme", "dark">>)
      \* "unread": inner_text() of the tile raises; what the tile shows is not read
      [] OTHER            -> [readable |-> FALSE, title |-> <<>>,
                              fulltext |-> <<"acme", "widget">>]

\* the kinds of a Gaming-Chairs listing and of a Scape search
RefineKinds == {"other", "spFD", "adv", "FD", "ML", "ALL", "colour", "near", "nochair",
                "empty", "unread"}
PageKinds == {"spFD", "FD", "ML", "ALL", "near", "unread"}
ScapeKinds == {"other", "scD", "scL", "scBoth", "spScD", "nearSc", "colour2", "empty",
               "unread"}

SeqsUpTo(S, n) == UNION {[1..m -> S] : m \in 0..n}

(***************************************************************************)
(* scripts/fractal_refine.py                                               *)
(***************************************************************************)
ShortPage == 10

DarkWords == {"dark", "black", "charcoal", "graphite", "noir", "midnight"}
LightWords == {"light", "white", "silver", "pearl", "snow", "grey", "gray",
               "lightgray", "lightgrey"}

PATTERNS ==
    ("Fabric Dark" :> <<W({"fractal"}), W({"refine"}), W({"chair"}), W({"fabric"}), W(DarkWords)>>)
    @@ ("Fabric Light" :> <<W({"fractal"}), W({"refine"}), W({"chair"}), W({"fabric"}), W(LightWords)>>)
    @@ ("Mesh Dark" :> <<W({"fractal"}), W({"refine"}), W({"chair"}), W({"mesh"}), W(DarkWords)>>)
    @@ ("Mesh Light" :> <<W({"fractal"}), W({"refine"}), W({"chair"}), W({"mesh"}), W(LightWords)>>)
    @@ ("Alcantara" :> <<W({"fractal"}), W({"refine"}), W({"chair"}), W({"alcantara"})>>)

\* the text collect_items_on_page stores for a tile it keeps
ItemText(t) == LowerText(ReplaceTMText(t.title \o t.fulltext))

\* mutant: the sponsored test is left out
Kept_countsSponsored(kind) == Tile(kind).readable

Kept(kind) == Tile(kind).readable /\ ~looks_sponsored_text(Tile(kind).fulltext)

collect_items_on_page(tiles) ==
    LET kept == SelectSeq(tiles, Kept)
    IN  [i \in 1..Len(kept) |->
            [title |-> Tile(kept[i]).title, fulltext |-> ItemText(Tile(kept[i]))]]

Anchored(txt) == InText("fractal", txt) /\ InText("refine", txt) /\ InText("chair", txt)

AllFound(r) == \A key \in DOMAIN r : r[key] # None

\* mutant: a later match overwrites the position (no `ranks[key] is None`)
ScanItem_overwrite(st, it) ==
    LET pos == st.global_pos + 1
        txt == it.fulltext
        r2  == IF Anchored(txt)
               THEN [key \in DOMAIN st.ranks |->
                        IF PatSearch(PATTERNS[key], txt) THEN pos ELSE st.ranks[key]]
               ELSE st.ranks
    IN  [ranks |-> r2, global_pos |-> pos, done |-> Anchored(txt) /\ AllFound(r2)]

\* mutant: the position is taken before the counter is advanced (0-based)
ScanItem_zeroBased(st, it) ==
    LET pos == st.global_pos + 1
        txt == it.fulltext
        r2  == IF Anchored(txt)
               THEN [key \in DOMAIN st.ranks |->
                        IF st.ranks[key] = None /\ PatSearch(PATTERNS[key], txt)
                        THEN st.global_pos ELSE st.ranks[key]]
               ELSE st.ranks
    IN  [ranks |-> r2, global_pos |-> pos, done |-> Anchored(txt) /\ AllFound(r2)]

\* one turn of `for it in items` of find_global_ranks
ScanItem(st, it) ==
    LET pos == st.global_pos + 1
        txt == it.fulltext
        r2  == IF Anchored(txt)
               THEN [key \in DOMAIN st.ranks |->
                        IF st.ranks[key] = None /\ PatSearch(PATTERNS[key], txt)
                        THEN pos ELSE st.ranks[key]]
               ELSE st.ranks
    IN  [ranks |-> r2, global_pos |-> pos, done |-> Anchored(txt) /\ AllFound(r2)]

\* the loop over the items of one page, left at the first item that completes the ranks
RECURSIVE ScanItems(_, _, _)
ScanItems(items, i, st) ==
    IF i > Len(items) \/ st.done THEN st
    ELSE ScanItems(items, i + 1, ScanItem(st, items[i]))

Fill(n) == [i \in 1..n |-> "other"]

\* a listing page: some tiles, a run of filler tiles, some tiles
PageSet ==
    UNION { UNION { { pre \o Fill(n) \o post :
                        post \in SeqsUpTo(PageKinds, MaxCore - Len(pre)) } :
                    pre \in SeqsUpTo(PageKinds, MaxCore) } :
            n \in {0, ShortPage - 1} }

\* mutant: the counter starts again at every page
ScanPage_reset(tiles, rk, gp) ==
    ScanItems(collect_items_on_page(tiles), 1,
              [ranks |-> rk, global_pos |-> 0, done |-> FALSE])

\* the scan of one fetched page: collect its items and run the loop over them
ScanPage(tiles, rk, gp) ==
    ScanItems(collect_items_on_page(tiles), 1,
              [ranks |-> rk, global_pos |-> gp, done |-> FALSE])

\* mutant: the short-page break is left out
StopScan_noShortPage(done, nitems, pn, mp) == done \/ pn = mp

\* whether find_global_ranks returns after this page: every pattern found (return
\* ranks), a short page (break), or the last turn of range(1, max_pages + 1)
StopScan(done, nitems, pn, mp) == done \/ nitems < ShortPage \/ pn = mp

\* find_global_ranks: fetch the next page and scan it
FetchPage ==
    /\ prog = "scripts_refine"
    /\ pc = "run"
    /\ \E tiles \in PageSet :
          LET st == ScanPage(tiles, ranks, global_pos)
          IN  /\ pages' = Append(pages, tiles)
              /\ ranks' = st.ranks
              /\ global_pos' = st.global_pos
              /\ IF StopScan(st.done, Len(collect_items_on_page(tiles)), pageno, max_pages)
                 THEN pc' = "returned" /\ pageno' = pageno
                 ELSE pc' = pc /\ pageno' = pageno + 1
    /\ UNCHANGED <<prog, max_pages, saved, summary>>
    /\ UNCHANGED otherThanRank

\* find_global_ranks: page.goto raises (no handler: the run ends with the exception)
GotoRaises ==
    /\ prog = "scripts_refine"
    /\ pc = "run"
    /\ pc' = "raised"
    /\ UNCHANGED <<prog, max_pages, pageno, global_pos, ranks, pages, saved, summary>>
    /\ UNCHANGED otherThanRank

\* a rank as save_to_excel writes it: "-" (dash) for None
rank_cell(pos) == [dash |-> pos = None, n |-> pos]

\* dict.get(key, default)
dict_get(d, key, default) == IF key \in DOMAIN d THEN d[key] ELSE default

\* a field of an f-string: the dash, the text None, or the number
DashField == [kind |-> "dash", n |-> 0]

\* what a position (or None) is in the dictionary find_global_ranks returned
Held(pos) == [kind |-> IF pos = None THEN "none" ELSE "num", n |-> pos]

\* save_to_excel of scripts/fractal_refine.py: the labels of the five rank
\* columns, and under each the cell `ranks.get(label) or "-"`
REFINE_HEADERS ==
    <<"Fabric Dark", "Fabric Light", "Mesh Dark", "Mesh Light", "Alcantara">>

refine_save_to_excel(rows, rk) ==
    Append(rows, [k \in 1..Len(REFINE_HEADERS) |->
                     LET v == dict_get([key \in DOMAIN rk |-> Held(rk[key])],
                                       REFINE_HEADERS[k], Held(None))
                     IN  rank_cell(v.n)])

\* main: the keys the summary line looks up, by the variant each field names
SUMMARY_KEYS ==
    ("Fabric Dark" :> "fabric_dark") @@ ("Mesh Dark" :> "mesh_dark")
    @@ ("Fabric Light" :> "fabric_light") @@ ("Mesh Light" :> "mesh_light")
    @@ ("Alcantara" :> "alcantara")

\* main: the fields of the line it prints, `ranks.get(key, '-')` each
refine_summary(rk) ==
    [label \in DOMAIN SUMMARY_KEYS |->
        dict_get([key \in DOMAIN rk |-> Held(rk[key])], SUMMARY_KEYS[label], DashField)]

\* main after find_global_ranks returned: save_to_excel, then the print
RefineMainEnd ==
    /\ prog = "scripts_refine"
    /\ pc = "returned"
    /\ saved' = refine_save_to_excel(saved, ranks)
    /\ summary' = refine_summary(ranks)
    /\ pc' = "printed"
    /\ UNCHANGED <<prog, max_pages, pageno, global_pos, ranks, pages>>
    /\ UNCHANGED otherThanRank

(***************************************************************************)
(* fractal_refine.py (the single-page variant)                             *)
(***************************************************************************)
ROOT_PATTERNS ==
    [ fabric_dark  |-> <<W({"fractal"}), W({"refine"}), Sub({"fabric", "woven"}),
                         Sub({"dark", "black", "charcoal", "noir", "graphite", "grey"})>>,
      fabric_light |-> <<W({"fractal"}), W({"refine"}), Sub({"fabric", "woven"}),
                         Sub({"light", "white", "silver", "grey", "gray"})>>,
      mesh_dark    |-> <<W({"fractal"}), W({"refine"}), Sub({"mesh"}),
                         Sub({"dark", "black", "charcoal", "noir", "graphite"})>>,
      mesh_light   |-> <<W({"fractal"}), W({"refine"}), Sub({"mesh"}),
                         Sub({"light", "white", "silver", "grey", "gray"})>>,
      alcantara    |-> <<W({"fractal"}), W({"refine"}), Sub({"alcantara"})>> ]

\* the sponsored test is made on the text with the trademark signs replaced
KeptNonEmpty(kind) ==
    /\ Tile(kind).readable
    /\ ~looks_sponsored_text(ReplaceTMText(Tile(kind).fulltext))
    /\ (Tile(kind).title # <<>> \/ Tile(kind).fulltext # <<>>)

ItemTextTitled(t) == LowerText(t.title \o ReplaceTMText(t.fulltext))

fetch_items_with_playwright(tiles) ==
    LET kept == SelectSeq(tiles, KeptNonEmpty)
    IN  [i \in 1..Len(kept) |->
            [title |-> Tile(kept[i]).title, fulltext |-> ItemTextTitled(Tile(kept[i]))]]

\* one turn of `for idx, it in enumerate(items, start=1)` of find_positions
PositionsItem(st, idx, it) ==
    LET txt == it.fulltext
        anchored == InText("fractal", txt) /\ InText("refine", txt)
        r2  == IF anchored
               THEN [key \in DOMAIN st.positions |->
                        IF st.positions[key] = None /\ PatSearch(ROOT_PATTERNS[key], txt)
                        THEN idx ELSE st.positions[key]]
               ELSE st.positions
    IN  [positions |-> r2, done |-> anchored /\ AllFound(r2)]

RECURSIVE PositionsFrom(_, _, _)
PositionsFrom(items, idx, st) ==
    IF idx > Len(items) \/ st.done THEN st
    ELSE PositionsFrom(items, idx + 1, PositionsItem(st, idx, items[idx]))

find_positions(items) ==
    PositionsFrom(items, 1,
                  [positions |-> [key \in DOMAIN ROOT_PATTERNS |-> None],
                   done |-> FALSE]).positions

\* main: fetch the one listing page and find the positions
RootMain ==
    /\ prog = "root_refine"
    /\ pc = "run"
    /\ \E tiles \in SeqsUpTo(RefineKinds, MaxTiles) :
          /\ pages' = Append(pages, tiles)
          /\ ranks' = find_positions(fetch_items_with_playwright(tiles))
    /\ pc' = "returned"
    /\ UNCHANGED <<prog, max_pages, pageno, global_pos, saved, summary>>
    /\ UNCHANGED otherThanRank

(***************************************************************************)
(* fractal_headset.py                                                      *)
(***************************************************************************)
SEARCHES == <<"Scape Dark rank", "Scape Light rank">>

HEADSET_PATTERNS ==
    ("Scape Dark rank" :> <<W({"fractal"}), W({"scape"}), W(DarkWords)>>)
    @@ ("Scape Light rank" :> <<W({"fractal"}), W({"scape"}), W(LightWords)>>)

collect_items_headset(tiles) ==
    LET kept == SelectSeq(tiles, KeptNonEmpty)
    IN  [i \in 1..Len(kept) |->
            [title |-> Tile(kept[i]).title, fulltext |-> ItemTextTitled(Tile(kept[i]))]]

RECURSIVE FirstPosFrom(_, _, _)
FirstPosFrom(items, pattern, idx) ==
    IF idx > Len(items) THEN None
    ELSE LET txt == items[idx].fulltext
         IN  IF ~(InText("fractal", txt) /\ InText("scape", txt))
             THEN FirstPosFrom(items, pattern, idx + 1)
             ELSE IF PatSearch(pattern, txt) THEN idx
             ELSE FirstPosFrom(items, pattern, idx + 1)

first_position_for_variant(items, pattern) == FirstPosFrom(items, pattern, 1)

\* ws.append of save_to_excel: the row after the date column
save_to_excel(rows, dark_pos, light_pos) ==
    Append(rows, <<rank_cell(dark_pos), rank_cell(light_pos)>>)

\* main: one turn of `for key, url in SEARCHES.items()`; after the last turn
\* main saves the row
HeadsetSearch ==
    /\ prog = "headset"
    /\ pc = "run"
    /\ \E tiles \in SeqsUpTo(ScapeKinds, MaxCore) :
          LET key == SEARCHES[pageno]
              items == collect_items_headset(tiles)
          IN  /\ pages' = Append(pages, tiles)
              /\ ranks' = [ranks EXCEPT
                              ![key] = first_position_for_variant(items, HEADSET_PATTERNS[key])]
    /\ IF pageno = Len(SEARCHES)
       THEN /\ pc' = "returned"
            /\ pageno' = pageno
            /\ saved' = save_to_excel(saved, ranks'["Scape Dark rank"], ranks'["Scape Light rank"])
       ELSE /\ pc' = pc
            /\ pageno' = pageno + 1
            /\ saved' = saved
    /\ UNCHANGED <<prog, max_pages, global_pos, summary>>
    /\ UNCHANGED otherThanRank

\* main: goto_with_retries raises after its last attempt; main has no
\* handler, so the exception ends the run before save_to_excel
HeadsetGotoRaises ==
    /\ prog = "headset"
    /\ pc = "run"
    /\ pc' = "raised"
    /\ UNCHANGED <<prog, max_pages, pageno, global_pos, ranks, pages, saved, summary>>
    /\ UNCHANGED otherThanRank

(***************************************************************************)
(* scripts/benuta_aov.py and scripts/trendcarpet_aov.py: the sheet         *)
(* RUGV_aov of data.xlsx.  A sheet is its header row and its data rows,    *)
(* every row as wide as the header; sheet row r is rows[r - 1].  Column A  *)
(* holds timestamps (NoStamp when empty), the other columns hold integers  *)
(* (None when empty); an empty header cell is "".  Number formats are not  *)
(* part of the model.                                                      *)
(***************************************************************************)
NoStamp == <<>>

Blank(column) == IF column = 1 THEN NoStamp ELSE None

NoFile == [state |-> "nofile", hdr |-> <<>>, rows |-> <<>>]

NoSheet == [state |-> "nosheet", hdr |-> <<>>, rows |-> <<>>]

\* strftime("%Y-%m-%d %H:%M") of a clock reading: the text names day and minute
strftime(t) == <<t.date, t.hm>>

\* strptime(...).date(): the day named by the text; None for an empty cell
_parse_excel_date(val) == IF val = NoStamp THEN None ELSE val[1]

max_row(ws) == 1 + Len(ws.rows)

max_column(ws) == IF Len(ws.hdr) = 0 THEN 1 ELSE Len(ws.hdr)

\* a sheet that has cells up to the given column
Widen(ws, column) ==
    IF column <= Len(ws.hdr) THEN ws
    ELSE LET old == Len(ws.hdr)
             more == column - old
         IN [ws EXCEPT !.hdr = ws.hdr \o [i \in 1..more |-> ""],
                       !.rows = [r \in 1..Len(ws.rows) |->
                                   ws.rows[r] \o [i \in 1..more |-> Blank(old + i)]]]

\* ws.cell(row=1, column=column, value=label)
header_cell(ws, column, label) ==
    LET w == Widen(ws, column)
    IN IF label = "" THEN w ELSE [w EXCEPT !.hdr[column] = label]

\* ws.cell(row=row, column=column, value=value) for row >= 2: the cell is
\* created if the sheet does not reach it, and a value of None is not stored
cell(ws, row, column, value) ==
    LET w == Widen(ws, column)
        n == Len(w.hdr)
        missing == row - 1 - Len(w.rows)
        grown == IF missing <= 0 THEN w.rows
                 ELSE w.rows \o [i \in 1..missing |-> [c \in 1..n |-> Blank(c)]]
    IN IF value = Blank(column) THEN [w EXCEPT !.rows = grown]
       ELSE [w EXCEPT !.rows = [grown EXCEPT ![row - 1][column] = value]]

\* pd.DataFrame([{cols[1]: timestamp_str, cols[2]: None, cols[3]: None}]).to_excel
to_excel(cols, timestamp_str) ==
    [state |-> "sheet", hdr |-> cols,
     rows |-> << [c \in 1..Len(cols) |-> IF c = 1 THEN timestamp_str ELSE None] >>]

_find_row_for_today_none(ws, today) == None

_find_row_for_today(ws, today) ==
    LET hits == {r \in 2..max_row(ws) : _parse_excel_date(ws.rows[r - 1][1]) = today}
    IN IF hits = {} THEN None ELSE CHOOSE r \in hits : \A q \in hits : r <= q

headers_get_none(ws, label) == None

\* headers.get(label) of {cell.value: cell.column for cell in ws[1] if cell.value}
headers_get(ws, label) ==
    LET cols == {c \in 1..Len(ws.hdr) : ws.hdr[c] = label}
    IN IF cols = {} THEN None ELSE CHOOSE c \in cols : \A d \in cols : d <= c

\* the two scripts differ in their column labels, in the header of a sheet
\* they create, and in whether a value of None reaches ws.cell
BENUTA == [name |-> "benuta", l100 |-> "Benuta 100", l50 |-> "Benuta 50",
           cols |-> <<"Datum", "AOV", "AOV Top-50">>, guarded |-> TRUE]

TRENDCARPET == [name |-> "trendcarpet", l100 |-> "TC 100", l50 |-> "TC 50",
                cols |-> <<"Datum", "AOV", "TC 50">>, guarded |-> FALSE]

\* the sheet with both labels in its header, and the columns that carry them
_get_or_create_headers(S, ws) ==
    LET got100 == headers_get(ws, S.l100)
        got50 == headers_get(ws, S.l50)
        col100 == IF got100 # None THEN got100
                  ELSE IF max_column(ws) >= 1 THEN max_column(ws) + 1 ELSE 2
        ws1 == IF got100 # None THEN ws ELSE header_cell(ws, col100, S.l100)
        col50 == IF got50 # None THEN got50
                 ELSE IF col100 = max_column(ws1) /\ ws1.hdr[col100] = S.l100
                      THEN col100 + 1
                      ELSE max_column(ws1) + 1
        ws2 == IF got50 # None THEN ws1 ELSE header_cell(ws1, col50, S.l50)
    IN [ws |-> ws2, col100 |-> col100, col50 |-> col50]

\* ws.cell(row, column, value=value), behind "if value is not None" in benuta_aov
write_value(S, ws, row, column, value) ==
    IF S.guarded /\ value = None THEN ws ELSE cell(ws, row, column, value)

\* append_to_excel of script S; today is its own reading of the clock
append_to_excel(S, wb, timestamp_str, aov100, aov50, today) ==
    IF wb.state = "nofile"
    THEN LET h == _get_or_create_headers(S, to_excel(S.cols, timestamp_str))
             w1 == write_value(S, h.ws, 2, h.col100, aov100)
         IN write_value(S, w1, 2, h.col50, aov50)
    ELSE LET ws == IF wb.state = "nosheet" THEN to_excel(S.cols, timestamp_str) ELSE wb
             h == _get_or_create_headers(S, ws)
             found == _find_row_for_today(h.ws, today)
             row == IF found = None THEN max_row(h.ws) + 1 ELSE found
             w0 == IF found = None THEN cell(h.ws, row, 1, timestamp_str) ELSE h.ws
             w1 == write_value(S, w0, row, h.col100, aov100)
         IN write_value(S, w1, row, h.col50, aov50)

\* the averages main can compute: None when a price list is empty
Aov == 0..MaxVal

\* main of script S at clock reading t: without prices it returns, otherwise
\* it stamps the minute and upserts; the stamp and today are one reading
main(S, wb, t, aov100, aov50) ==
    IF aov100 = None /\ aov50 = None THEN wb
    ELSE append_to_excel(S, wb, strftime(t), aov100, aov50, t.date)

BenutaMain ==
    /\ prog = "aov"
    /\ \E aov100 \in Aov, aov50 \in Aov :
          wbook' = main(BENUTA, wbook, now, aov100, aov50)
    /\ UNCHANGED now
    /\ UNCHANGED otherThanSheet

TrendcarpetMain ==
    /\ prog = "aov"
    /\ \E aov100 \in Aov, aov50 \in Aov :
          wbook' = main(TRENDCARPET, wbook, now, aov100, aov50)
    /\ UNCHANGED now
    /\ UNCHANGED otherThanSheet

\* a minute passes; after the last minute of a day the next day begins
Tick ==
    /\ prog = "aov"
    /\ \/ now.hm < MaxMinute /\ now' = [now EXCEPT !.hm = now.hm + 1]
       \/ now.hm = MaxMinute /\ now.date < MaxDays /\ now' = [date |-> now.date + 1, hm |-> 1]
    /\ UNCHANGED wbook
    /\ UNCHANGED otherThanSheet

(***************************************************************************)
(* adtraction_epc.py, scripts/adtraction_epc_all.py and                    *)
(* scripts/adtraction_epc_finance.py: the EPC cell parser.  A text is a    *)
(* sequence of characters, each a string; the characters outside ASCII are *)
(* written by name: "EURO", "POUND", "RUBLE", "LIRA", "NBSP" (U+00A0) and  *)
(* "NNBSP" (U+202F).                                                       *)
(***************************************************************************)
DigitChars == {"0", "1", "2", "3", "4", "5", "9"}

DigitValue(c) ==
    CASE c = "0" -> 0 [] c = "1" -> 1 [] c = "2" -> 2 [] c = "3" -> 3
      [] c = "4" -> 4 [] c = "5" -> 5 [] c = "9" -> 9

\* the letters of the vocabulary, as <<upper case, lower case>>
CasePairs ==
    { <<"A", "a">>, <<"B", "b">>, <<"C", "c">>, <<"D", "d">>, <<"E", "e">>,
      <<"G", "g">>, <<"H", "h">>, <<"I", "i">>, <<"K", "k">>, <<"N", "n">>,
      <<"O", "o">>, <<"R", "r">>, <<"S", "s">>, <<"T", "t">>, <<"U", "u">> }

LetterChars == {p[1] : p \in CasePairs} \cup {p[2] : p \in CasePairs}

\* \s of a str pattern
SpaceChars == {" ", "NBSP", "NNBSP"}

\* \w: letters, digits and the underscore
WordChars == LetterChars \cup DigitChars \cup {"_"}

SymbolChars == {"POUND", "EURO", "$", "RUBLE", "LIRA"}

CharLower(c) ==
    IF \E p \in CasePairs : p[1] = c THEN (CHOOSE p \in CasePairs : p[1] = c)[2] ELSE c

CharUpper(c) ==
    IF \E p \in CasePairs : p[2] = c THEN (CHOOSE p \in CasePairs : p[2] = c)[1] ELSE c

lower(s) == [i \in 1..Len(s) |-> CharLower(s[i])]

upper(s) == [i \in 1..Len(s) |-> CharUpper(s[i])]

\* s.replace(old, new) for a single character old; new is a text
RECURSIVE replace(_, _, _)
replace(s, old, new) ==
    IF s = <<>> THEN <<>>
    ELSE (IF Head(s) = old THEN new ELSE <<Head(s)>>) \o replace(Tail(s), old, new)

\* the last index of the longest run of characters of class C that starts at i
\* (i - 1 when the character at i is not of the class)
RunEnd(t, i, C) ==
    CHOOSE j \in (i - 1)..Len(t) :
        /\ \A k \in i..j : t[k] \in C
        /\ j = Len(t) \/ t[j + 1] \notin C

\* \b between the characters at p and p + 1
Boundary(t, p) ==
    (p >= 1 /\ t[p] \in WordChars) # (p < Len(t) /\ t[p + 1] \in WordChars)

LiteralAt_caseSensitive(t, i, w) ==
    /\ i + Len(w) - 1 <= Len(t)
    /\ \A k \in 1..Len(w) : t[i + k - 1] = w[k]

\* the literal w matches at i, re.I
LiteralAt(t, i, w) ==
    /\ i + Len(w) - 1 <= Len(t)
    /\ \A k \in 1..Len(w) : CharLower(t[i + k - 1]) = w[k]

NoDataWords == { <<"i", "n", "g", "a">>, <<"i", "n", "g", "e", "n">>, <<"n", "o">> }

\* NO_DATA_RE.search(t):  \b(inga\s*data|ingen\s*data|no\s*data)\b , re.I
NO_DATA_RE(t) ==
    \E i \in 1..Len(t), w \in NoDataWords :
        /\ Boundary(t, i - 1)
        /\ LiteralAt(t, i, w)
        /\ LET d == RunEnd(t, i + Len(w), SpaceChars) + 1
           IN /\ LiteralAt(t, d, <<"d", "a", "t", "a">>)
              /\ Boundary(t, d + 3)

NoGroups == [ok |-> FALSE, val |-> <<>>, cur |-> <<>>]

\* CURRENCY_REGEX matched at i:
\*   (?P<val>[-+]?\d+(?:[.,]\d+)?)\s*(?P<cur>[A-Z]{3}|kr|POUND|EURO|\$|RUBLE|LIRA), re.I
\* Every run is taken whole: a shorter run of digits or of white space is
\* followed by a character of its own class, and a fraction left out by a
\* separator, and none of these starts the next part of the pattern.
CurrencyAt(t, i) ==
    LET s == IF i <= Len(t) /\ t[i] \in {"-", "+"} THEN i + 1 ELSE i
        e == RunEnd(t, s, DigitChars)
        frac == /\ e + 2 <= Len(t)
                /\ t[e + 1] \in {".", ","}
                /\ t[e + 2] \in DigitChars
        v == IF frac THEN RunEnd(t, e + 2, DigitChars) ELSE e
        c == RunEnd(t, v + 1, SpaceChars) + 1
        n == IF c + 2 <= Len(t) /\ \A k \in c..(c + 2) : t[k] \in LetterChars THEN 3
             ELSE IF LiteralAt(t, c, <<"k", "r">>) THEN 2
             ELSE IF c <= Len(t) /\ t[c] \in SymbolChars THEN 1
             ELSE 0
    IN IF e >= s /\ n > 0
       THEN [ok |-> TRUE, val |-> SubSeq(t, i, v), cur |-> SubSeq(t, c, c + n - 1)]
       ELSE NoGroups

\* CURRENCY_REGEX.search(t): the match at the leftmost position that has one
CURRENCY_REGEX(t) ==
    LET starts == {i \in 1..Len(t) : CurrencyAt(t, i).ok}
    IN IF starts = {} THEN NoGroups
       ELSE CurrencyAt(t, CHOOSE i \in starts : \A j \in starts : i <= j)

RECURSIVE Number(_)
Number(ds) ==
    IF ds = <<>> THEN 0
    ELSE 10 * Number(SubSeq(ds, 1, Len(ds) - 1)) + DigitValue(ds[Len(ds)])

RECURSIVE Pow10(_)
Pow10(k) == IF k = 0 THEN 1 ELSE 10 * Pow10(k - 1)

\* a float is the fraction num / den in lowest decimal terms: 129.90 is 129.9
RECURSIVE Decimal(_, _)
Decimal(num, den) ==
    IF den > 1 /\ num % 10 = 0 THEN Decimal(num \div 10, den \div 10)
    ELSE [ok |-> TRUE, num |-> num, den |-> den]

NoFloat == [ok |-> FALSE, num |-> 0, den |-> 1]

\* float(s) for s of the shape [-+]digits[.digits]; ValueError (NoFloat) otherwise
float(s) ==
    LET signed == s # <<>> /\ s[1] \in {"-", "+"}
        body == IF signed THEN Tail(s) ELSE s
        dots == {i \in 1..Len(body) : body[i] = "."}
        dot == IF dots = {} THEN Len(body) + 1 ELSE CHOOSE i \in dots : \A j \in dots : i <= j
        int == SubSeq(body, 1, dot - 1)
        fr == SubSeq(body, dot + 1, Len(body))
        digits == int \o fr
    IN IF /\ Cardinality(dots) <= 1
          /\ digits # <<>>
          /\ \A i \in 1..Len(digits) : digits[i] \in DigitChars
       THEN LET mag == Decimal(Number(digits), Pow10(Len(fr)))
            IN IF signed /\ s[1] = "-" THEN [mag EXCEPT !.num = 0 - mag.num] ELSE mag
       ELSE NoFloat

\* to_float of scripts/adtraction_epc_all.py and scripts/adtraction_epc_finance.py
to_float(s) ==
    float(replace(replace(replace(replace(s, "NBSP", <<" ">>), "NNBSP", <<" ">>),
                          " ", <<>>), ",", <<".">>))

\* to_float of adtraction_epc.py
to_float_root(s) ==
    float(replace(replace(replace(s, "NBSP", <<>>), " ", <<>>), ",", <<".">>))

NoMatch == [ok |-> FALSE, num |-> 0, den |-> 1, cur |-> <<>>]

\* (val, cur) of the match m, or (None, None)
Groups(m, val) ==
    IF ~m.ok \/ ~val.ok THEN NoMatch
    ELSE [ok |-> TRUE, num |-> val.num, den |-> val.den, cur |-> m.cur]

\* parse_epc_cell of scripts/adtraction_epc_all.py and scripts/adtraction_epc_finance.py
parse_epc_cell(text) ==
    IF text = <<>> \/ NO_DATA_RE(text) THEN NoMatch
    ELSE LET m == CURRENCY_REGEX(replace(replace(text, "NBSP", <<" ">>), "NNBSP", <<" ">>))
         IN Groups(m, to_float(m.val))

\* parse_epc_cell of adtraction_epc.py
parse_epc_cell_root(text) ==
    IF text = <<>> THEN NoMatch
    ELSE IF NO_DATA_RE(text) THEN NoMatch
    ELSE LET m == CURRENCY_REGEX(replace(text, "NBSP", <<" ">>))
         IN Groups(m, to_float_root(m.val))

EUR == <<"E", "U", "R">>
SEK == <<"S", "E", "K">>
DKK == <<"D", "K", "K">>
NOK == <<"N", "O", "K">>

symbol_map_none(c) == c

\* symbol_map.get(c, c) of normalize_currency and of to_sek in scripts/
symbol_map(c) ==
    CASE c = <<"EURO">> -> EUR
      [] c = <<"$">> -> <<"U", "S", "D">>
      [] c = <<"POUND">> -> <<"G", "B", "P">>
      [] c = <<"RUBLE">> -> <<"R", "U", "B">>
      [] c = <<"LIRA">> -> <<"T", "R", "Y">>
      [] OTHER -> c

\* symbol_map.get(c, c) of to_sek in adtraction_epc.py
symbol_map_root(c) == IF c = <<"K", "R">> THEN SEK ELSE symbol_map(c)

\* the country codes a unit of work carries; <<>> is None
Countries == {<<>>, <<"S", "E">>, <<"D", "K">>, <<"N", "O">>, <<"F", "I">>}

\* KR_BY_CC.get((cc or "SE").upper(), "SEK")
KR_BY_CC(cc) ==
    LET key == upper(IF cc = <<>> THEN <<"S", "E">> ELSE cc)
    IN CASE key = <<"S", "E">> -> SEK
         [] key = <<"D", "K">> -> DKK
         [] key = <<"N", "O">> -> NOK
         [] OTHER -> SEK

\* normalize_currency(cur, cc); to_sek of scripts/adtraction_epc_all.py
\* computes the currency it converts from in the same way
normalize_currency(cur, cc) ==
    LET c == symbol_map(upper(cur))
    IN IF lower(c) = <<"k", "r">> THEN KR_BY_CC(cc) ELSE c

\* the currency to_sek of adtraction_epc.py converts from
to_sek_currency_root(cur) == symbol_map_root(upper(cur))

\* The texts of an EPC cell, as inner_text().strip() returns them: the empty
\* text, and a leading part, an amount written as thousands group, digits and
\* fraction, white space, a currency token and a trailing part, each of
\* which may be absent.
Leads ==
    { <<>>,
      <<"EURO">>,
      <<"N", "o", " ", "D", "a", "t", "a", " ">>,
      <<"t", "e", "c", "h", "n", "o", " ", "d", "a", "t", "a", " ">> }

Thousands == { <<>>, <<"1", " ">>, <<"1", "NBSP">>, <<"1", "NNBSP">> }

Ints == { <<"1", "2">>, <<"1", "2", "9">>, <<"2", "3", "4">> }

Fractions == { <<>>, <<",", "9", "0">>, <<".", "5", "0">> }

Gaps == { <<>>, <<" ">> }

Tokens == { <<>>, <<"k", "r">>, <<"K", "r">>, <<"EURO">>, EUR }

Trails ==
    { <<>>,
      <<" ", "I", "N", "G", "A", " ", "D", "A", "T", "A">>,
      <<" ", "i", "n", "g", "e", "n", " ", "d", "a", "t", "a">>,
      <<" ", "n", "o", " ", "d", "a", "t", "a", "b", "a", "s", "e">> }

EpcTexts ==
    {<<>>} \cup
    { p[1] \o p[2] \o p[3] \o p[4] \o p[5] \o p[6] \o p[7] :
        p \in Leads \X Thousands \X Ints \X Fractions \X Gaps \X Tokens \X Trails }

\* scrape_category_country of the scripts/ programs: parse the cell
ParseAll ==
    /\ prog = "epc_all"
    /\ pc = "cell"
    /\ parsed' = parse_epc_cell(epc_text)
    /\ pc' = "parsed"
    /\ UNCHANGED <<prog, epc_text, iso>>
    /\ UNCHANGED otherThanEpc

ParseFinance ==
    /\ prog = "epc_finance"
    /\ pc = "cell"
    /\ parsed' = parse_epc_cell(epc_text)
    /\ pc' = "parsed"
    /\ UNCHANGED <<prog, epc_text, iso>>
    /\ UNCHANGED otherThanEpc

\* scrape_category_country of adtraction_epc.py: its own test for an empty or
\* no-data cell, then parse_epc_cell
ParseRoot ==
    /\ prog = "epc_root"
    /\ pc = "cell"
    /\ parsed' = IF epc_text = <<>> \/ NO_DATA_RE(epc_text) THEN NoMatch
                 ELSE parse_epc_cell_root(epc_text)
    /\ pc' = "parsed"
    /\ UNCHANGED <<prog, epc_text, iso>>
    /\ UNCHANGED otherThanEpc

\* "if v is not None and cur is not None" fails: the cell gives no observation
SkipCell ==
    /\ prog \in {"epc_all", "epc_finance", "epc_root"}
    /\ pc = "parsed"
    /\ ~parsed.ok
    /\ pc' = "skipped"
    /\ UNCHANGED <<prog, epc_text, parsed, iso>>
    /\ UNCHANGED otherThanEpc

\* apply_variant_filter: the observation's currency, in the unit's country
NormalizeFinance ==
    /\ prog = "epc_finance"
    /\ pc = "parsed"
    /\ parsed.ok
    /\ \E cc \in Countries : iso' = normalize_currency(parsed.cur, cc)
    /\ pc' = "normalized"
    /\ UNCHANGED <<prog, epc_text, parsed>>
    /\ UNCHANGED otherThanEpc

\* "1) Filter i lokal valuta" of main: 0.01 <= v <= 20 for the token EUR in
\* any letter case, 0.1 <= v <= 200 for every other token
filtered_local(v) ==
    IF upper(v.cur) = EUR
    THEN v.den <= 100 * v.num /\ v.num <= 20 * v.den
    ELSE v.den <= 10 * v.num /\ v.num <= 200 * v.den

\* an observation outside the band goes no further
DropAll ==
    /\ prog = "epc_all"
    /\ pc = "parsed"
    /\ parsed.ok
    /\ ~filtered_local(parsed)
    /\ pc' = "dropped"
    /\ UNCHANGED <<prog, epc_text, parsed, iso>>
    /\ UNCHANGED otherThanEpc

\* to_sek(v, cur, rates, cc=cc) for an observation inside the band: the
\* currency whose rate it looks up
ToSekAll ==
    /\ prog = "epc_all"
    /\ pc = "parsed"
    /\ parsed.ok
    /\ filtered_local(parsed)
    /\ \E cc \in Countries : iso' = normalize_currency(parsed.cur, cc)
    /\ pc' = "normalized"
    /\ UNCHANGED <<prog, epc_text, parsed>>
    /\ UNCHANGED otherThanEpc

\* to_sek(v, cur, rates) of adtraction_epc.py
ToSekRoot ==
    /\ prog = "epc_root"
    /\ pc = "parsed"
    /\ parsed.ok
    /\ iso' = to_sek_currency_root(parsed.cur)
    /\ pc' = "normalized"
    /\ UNCHANGED <<prog, epc_text, parsed>>
    /\ UNCHANGED otherThanEpc

(***************************************************************************)
(* The EPC programs, from the observations of a unit of work to its        *)
(* aggregates.  A float is a fraction in lowest terms; an observation is   *)
(* the pair (v, cur) parse_epc_cell returned; rates is the mapping the     *)
(* exchange-rate service returned, from ISO code to a fraction.            *)
(***************************************************************************)
RECURSIVE GCD(_, _)
GCD(a, b) == IF b = 0 THEN a ELSE GCD(b, a % b)

Q(n, d) == LET g == GCD(n, d) IN [ok |-> TRUE, num |-> n \div g, den |-> d \div g]

QLe(a, b) == a.num * b.den <= b.num * a.den

QAdd(a, b) == Q(a.num * b.den + b.num * a.den, a.den * b.den)

QTimes(a, b) == Q(a.num * b.num, a.den * b.den)

\* a / b for b # 0
QOver(a, b) == Q(a.num * b.den, a.den * b.num)

\* rates.get(cur): NoFloat (None) when the mapping has no entry
rates_get(rs, cur) == IF cur \in DOMAIN rs THEN rs[cur] ELSE NoFloat

\* "not rate": None or 0.0
Falsy(rate) == ~rate.ok \/ rate.num = 0

to_sek_times(amount, currency, rs, cc) ==
    LET cur == normalize_currency(currency, cc)
        rate == rates_get(rs, cur)
    IN IF cur = SEK THEN amount
       ELSE IF Falsy(rate) THEN NoFloat
       ELSE QTimes(amount, rate)

\* to_sek of scripts/adtraction_epc_all.py
to_sek(amount, currency, rs, cc) ==
    LET cur == normalize_currency(currency, cc)
        rate == rates_get(rs, cur)
    IN IF cur = SEK THEN amount
       ELSE IF Falsy(rate) THEN NoFloat
       ELSE QOver(amount, rate)

to_sek_root_asis(amount, currency, rs) ==
    LET cur == to_sek_currency_root(currency)
        rate == rates_get(rs, cur)
    IN IF cur = SEK \/ Falsy(rate) THEN amount
       ELSE QOver(amount, rate)

\* to_sek of adtraction_epc.py
to_sek_root(amount, currency, rs) ==
    LET cur == to_sek_currency_root(currency)
        rate == rates_get(rs, cur)
    IN IF cur = SEK THEN amount
       ELSE IF Falsy(rate) THEN NoFloat
       ELSE QOver(amount, rate)

Between(lo, v, hi) == QLe(lo, v) /\ QLe(v, hi)

FILTERS_0_200(c) ==
    CASE c = EUR -> <<Q(1, 100), Q(20, 1)>>
      [] c = DKK -> <<Q(6, 100), Q(130, 1)>>
      [] OTHER -> <<Q(1, 10), Q(200, 1)>>

FILTERS_3_120(c) ==
    CASE c = EUR -> <<Q(3, 10), Q(12, 1)>>
      [] c = DKK -> <<Q(2, 10), Q(80, 1)>>
      [] OTHER -> <<Q(3, 1), Q(120, 1)>>

in_range(value, iso_currency, variant) ==
    LET band == IF variant = "0_200" THEN FILTERS_0_200(iso_currency)
                ELSE FILTERS_3_120(iso_currency)
    IN value.ok /\ Between(band[1], value, band[2])

apply_variant_filter(raw_items, cc, variant) ==
    LET Passes(o) == in_range(o.v, normalize_currency(o.cur, cc), variant)
        kept == SelectSeq(raw_items, Passes)
    IN [i \in 1..Len(kept) |-> kept[i].v]

\* "1) Filter i lokal valuta" of main in scripts/adtraction_epc_all.py
filter_local(raw_items) ==
    LET Passes(o) == IF upper(o.cur) = EUR THEN Between(Q(1, 100), o.v, Q(20, 1))
                     ELSE Between(Q(1, 10), o.v, Q(200, 1))
    IN SelectSeq(raw_items, Passes)

\* the values to_sek gave for the items, those without a rate left out
converted(items, rs, cc) ==
    LET sek == [i \in 1..Len(items) |-> [v |-> to_sek(items[i].v, items[i].cur, rs, cc)]]
        Known(o) == o.v.ok
        kept == SelectSeq(sek, Known)
    IN [i \in 1..Len(kept) |-> kept[i].v]

\* the loop over raw of main in adtraction_epc.py
filtered_root(raw_items, rs) ==
    LET sek == [i \in 1..Len(raw_items) |->
                   [v |-> to_sek_root(raw_items[i].v, raw_items[i].cur, rs)]]
        Passes(o) == o.v.ok /\ Between(Q(1, 10), o.v, Q(200, 1))
        kept == SelectSeq(sek, Passes)
    IN [i \in 1..Len(kept) |-> kept[i].v]

\* len(values) as main writes it: "-" (dash) for an empty list
count_cell(values) == [dash |-> values = <<>>, n |-> Len(values)]



\* what scrape_category_country can return for a unit of work
ObsValues == {Q(0, 1), Q(1, 100), Q(10, 1), Q(20, 1), Q(21, 1), Q(150, 1)}

ObsTokens == {EUR, <<"EURO">>, <<"k", "r">>, NOK}

Observations == {[v |-> x, cur |-> t] : x \in ObsValues, t \in ObsTokens}

RawLists == SeqsUpTo(Observations, MaxObs)

\* the countries of the units of work (the cc of ALL_COUNTRIES)
UnitCountries == Countries \ {<<>>}

\* the mappings sek_rates can return: NOK present, absent, or zero
RateTables ==
    { (EUR :> Q(1, 10)) @@ (DKK :> Q(2, 3)) @@ (NOK :> Q(2, 1)),
      (EUR :> Q(1, 10)) @@ (DKK :> Q(2, 3)),
      (EUR :> Q(1, 10)) @@ (DKK :> Q(2, 3)) @@ (NOK :> Q(0, 1)) }

\* main of scripts/adtraction_epc_all.py, one pass of the loop over the
\* units: scrape, filter in local currency, write the unit's cells, convert
\* what passed the filter and add it to the total list
UnitAll ==
    /\ prog = "agg_all"
    /\ pc = "units"
    /\ unit < MaxUnits
    /\ \E cc \in UnitCountries, items \in RawLists :
          LET kept == filter_local(items)
              values == [i \in 1..Len(kept) |-> kept[i].v]
          IN /\ unit_cc' = cc
             /\ raw' = items
             /\ accepted' = [a \in {"local"} |-> values]
             /\ cells' = [a \in {"local"} |-> count_cell(values)]
             /\ total_values' = total_values \o converted(kept, rates, cc)
    /\ unit' = unit + 1
    /\ UNCHANGED <<prog, pc, rates>>
    /\ UNCHANGED otherThanAgg

\* "Skriv Total / Total # EN GANG": after the loop
TotalAll ==
    /\ prog = "agg_all"
    /\ pc = "units"
    /\ unit = MaxUnits
    /\ cells' = [a \in DOMAIN cells \cup {"total"} |->
                   IF a = "total" THEN count_cell(total_values) ELSE cells[a]]
    /\ pc' = "done"
    /\ UNCHANGED <<prog, rates, unit, unit_cc, raw, accepted, total_values>>
    /\ UNCHANGED otherThanAgg

\* main of scripts/adtraction_epc_finance.py for one unit: its raw
\* observations, filtered for each variant of SHEETS, and the count cells
UnitFinance ==
    /\ prog = "agg_finance"
    /\ pc = "units"
    /\ unit < MaxUnits
    /\ \E cc \in UnitCountries, items \in RawLists :
          /\ unit_cc' = cc
          /\ raw' = items
          /\ accepted' = [a \in {"0_200", "3_120"} |-> apply_variant_filter(items, cc, a)]
          /\ cells' = [a \in {"0_200", "3_120"} |->
                         count_cell(apply_variant_filter(items, cc, a))]
    /\ unit' = unit + 1
    /\ UNCHANGED <<prog, pc, rates, total_values>>
    /\ UNCHANGED otherThanAgg

\* main of adtraction_epc.py, one pass of the loop over the units: convert,
\* filter in SEK, write the unit's cells and, if anything passed, the total
UnitRoot ==
    /\ prog = "agg_root"
    /\ pc = "units"
    /\ unit < MaxUnits
    /\ \E cc \in UnitCountries, items \in RawLists :
          LET filtered == filtered_root(items, rates)
              total == total_values \o filtered
          IN /\ unit_cc' = cc
             /\ raw' = items
             /\ accepted' = [a \in {"sek"} |-> filtered]
             /\ total_values' = total
             /\ cells' = [a \in (IF filtered = <<>> THEN DOMAIN cells \ {"sek"} ELSE {"total"})
                                \cup {"sek"} |->
                            IF a = "sek" THEN count_cell(filtered)
                            ELSE IF filtered = <<>> THEN cells[a]
                            ELSE [dash |-> FALSE, n |-> Len(total)]]
    /\ unit' = unit + 1
    /\ UNCHANGED <<prog, pc, rates>>
    /\ UNCHANGED otherThanAgg

(***************************************************************************)
(* scripts/adtraction_stats.py and adtraction_konverteringar_scrape.py:    *)
(* the counters of the "about" page, logged to the sheet ADTR_conversions  *)
(* of data.xlsx and to the text file Adtraction_conversions.txt.  A page   *)
(* is its HTTP status, the labels its text has, and for each label the     *)
(* number that follows it (None when no digits follow).  "Varumarken" is   *)
(* the label written with a-diaeresis in the source.                       *)
(***************************************************************************)
LABELS == <<"Konverteringar", "Varumarken">>

LabelNames == {LABELS[i] : i \in 1..Len(LABELS)}

HtmlPages ==
    {page \in [status : {200}, has : SUBSET LabelNames, num : [LabelNames -> 0..MaxVal]] :
        \A l \in LabelNames \ page.has : page.num[l] = None}
    \cup {[status |-> 500, has |-> {}, num |-> [l \in LabelNames |-> None]]}

\* re.search(rf"{label}\s+([0-9 ][0-9 ]+)", text)
label_search(page, label) == label \in page.has /\ page.num[label] # None

parse_numbers_lenient(page) ==
    [ok |-> TRUE,
     conversions |-> page.num["Konverteringar"],
     brands |-> page.num["Varumarken"]]

\* ok is FALSE where parse_numbers raises ValueError
parse_numbers(page) ==
    LET missing == {l \in LabelNames : ~label_search(page, l)}
    IN [ok |-> missing = {},
        conversions |-> page.num["Konverteringar"],
        brands |-> page.num["Varumarken"]]

StatsHeader == <<"Datum", "Konverteringar", "Varumarken", "Diff">>

ensure_workbook(wb) ==
    IF wb.state = "sheet" THEN wb
    ELSE [state |-> "sheet", hdr |-> StatsHeader, rows |-> <<>>]

\* a Diff cell: None when there is no previous row
diff_cell(rows, conv) ==
    IF rows = <<>> THEN [none |-> TRUE, n |-> 0]
    ELSE [none |-> FALSE, n |-> conv - rows[Len(rows)][2]]

\* an append that does not look for the Datum in the sheet
append_row_xlsx_always(wb, Datum, conv, brands) ==
    LET ws == ensure_workbook(wb)
    IN [ws EXCEPT !.rows = Append(ws.rows, <<Datum, conv, brands, diff_cell(ws.rows, conv)>>)]

\* append_row_xlsx: the workbook on disk afterwards; a row whose Datum is
\* already in the sheet returns before wb.save
append_row_xlsx(wb, Datum, conv, brands) ==
    LET ws == ensure_workbook(wb)
    IN IF \E r \in 1..Len(ws.rows) : ws.rows[r][1] = Datum THEN wb
       ELSE [ws EXCEPT !.rows = Append(ws.rows, <<Datum, conv, brands, diff_cell(ws.rows, conv)>>)]

\* main of scripts/adtraction_stats.py under its __main__ handler: any
\* exception is reported and the process exits with code 1
StatsMain ==
    /\ prog = "stats"
    /\ pc = "run"
    /\ \E page \in HtmlPages :
          LET nums == parse_numbers(page)
          IN /\ html' = page
             /\ IF page.status # 200 \/ ~nums.ok
                THEN wbook' = wbook /\ exit_code' = 1
                ELSE /\ wbook' = append_row_xlsx(wbook, strftime(now), nums.conversions, nums.brands)
                     /\ exit_code' = 0
    /\ pc' = "exited"
    /\ UNCHANGED <<prog, now>>
    /\ UNCHANGED otherThanStats

RootHeader == <<"datum", "dataset", "konverteringar", "varumarken">>

DATASET == "ADTR_conversions"

\* ensure_workbook of adtraction_stats.py
ensure_workbook_root(wb) ==
    IF wb.state = "sheet" THEN wb
    ELSE [state |-> "sheet", hdr |-> RootHeader, rows |-> <<>>]

\* append_row_xlsx of adtraction_stats.py
append_row_xlsx_root(wb, datum, dataset, conv, brands) ==
    LET ws == ensure_workbook_root(wb)
    IN IF \E r \in 1..Len(ws.rows) : ws.rows[r][1] = datum /\ ws.rows[r][2] = dataset THEN wb
       ELSE [ws EXCEPT !.rows = Append(ws.rows, <<datum, dataset, conv, brands>>)]

\* main of adtraction_stats.py under its __main__ handler; the row is
\* stamped with 07:00 of the day of the run
StatsRootMain ==
    /\ prog = "stats_root"
    /\ pc = "run"
    /\ \E page \in HtmlPages :
          LET nums == parse_numbers(page)
              datum == strftime([date |-> now.date, hm |-> 7])
          IN /\ html' = page
             /\ IF page.status # 200 \/ ~nums.ok
                THEN wbook' = wbook /\ exit_code' = 1
                ELSE /\ wbook' = append_row_xlsx_root(wbook, datum, DATASET,
                                                      nums.conversions, nums.brands)
                     /\ exit_code' = 0
    /\ pc' = "exited"
    /\ UNCHANGED <<prog, now>>
    /\ UNCHANGED otherThanStats

\* ensure_outfile: the file with its header line
ensure_outfile(f) ==
    IF f.state = "nofile"
    THEN [state |-> "file", hdr |-> <<"Datum Tid (Europe/Stockholm) Konverteringar">>, rows |-> <<>>]
    ELSE f

\* ok is FALSE where fetch_konverteringar raises RuntimeError
fetch_konverteringar(page) ==
    [ok |-> label_search(page, "Konverteringar"), siffra |-> page.num["Konverteringar"]]

\* log_konverteringar of adtraction_konverteringar_scrape.py; an exception
\* is not handled and ends the process with exit code 1
KonvMain ==
    /\ prog = "konv"
    /\ pc = "run"
    /\ \E page \in HtmlPages :
          LET f == ensure_outfile(wbook)
              got == fetch_konverteringar(page)
          IN /\ html' = page
             /\ IF page.status # 200 \/ ~got.ok
                THEN wbook' = f /\ exit_code' = 1
                ELSE /\ wbook' = [f EXCEPT !.rows = Append(f.rows, <<strftime(now), got.siffra>>)]
                     /\ exit_code' = 0
    /\ pc' = "exited"
    /\ UNCHANGED <<prog, now>>
    /\ UNCHANGED otherThanStats

\* time passes until the script is started again
StatsTick ==
    /\ prog \in {"stats", "konv", "stats_root"}
    /\ pc = "exited"
    /\ Len(wbook.rows) < MaxRows
    /\ \/ now.hm < MaxMinute /\ now' = [now EXCEPT !.hm = now.hm + 1]
       \/ now.hm = MaxMinute /\ now.date < MaxDays /\ now' = [date |-> now.date + 1, hm |-> 1]
       \/ now' = now
    /\ pc' = "run"
    /\ UNCHANGED <<prog, wbook, html, exit_code>>
    /\ UNCHANGED otherThanStats

(***************************************************************************)
(* The order of the page fetches of a run: main of adtraction_epc.py,      *)
(* which awaits the scrape of a unit inside its loop, and main of          *)
(* scripts/soder_impressions.py, which creates one task per measurement    *)
(* and awaits the tasks afterwards.  A fetch is "pending" before its       *)
(* page.goto is issued, "inflight" until it returns or raises, and then    *)
(* "done" or "failed".                                                     *)
(***************************************************************************)
ORDER == <<"SE", "DE", "NO", "FR", "NL", "FI", "DK", "EN">>

\* the keys of tasks in insertion order: (m, "Aktiva"), (m, "Totala") for
\* the markets of ORDER
TaskKeys ==
    [i \in 1..(2 * MaxMarkets) |->
        <<ORDER[(i + 1) \div 2], IF i % 2 = 1 THEN "Aktiva" ELSE "Totala">>]

Pending == [st |-> "pending", val |-> None]

\* what a fetch can return: a count, or None when no count was found
FetchCounts == {None, 1}

NoCell == [set |-> FALSE, val |-> None]

\* the fetches issued and not yet finished
InFlight == {k \in DOMAIN tasks : tasks[k].st = "inflight"}

\* adtraction_epc.py: the loop reaches unit k when every unit before it has
\* been scraped and written
awaited_eager(ts, k) == ts[k].st = "pending"

awaited(ts, k) == ts[k].st = "pending" /\ \A j \in 1..(k - 1) : ts[j].st = "done"

\* main of adtraction_epc.py: a new context and page for the unit, and
\* scrape_category_country begins
SeqStart ==
    /\ prog = "seq_root"
    /\ pc = "run"
    /\ \E k \in DOMAIN tasks :
          /\ awaited(tasks, k)
          /\ tasks' = [tasks EXCEPT ![k].st = "inflight"]
    /\ UNCHANGED <<prog, pc, out_row, saved>>
    /\ UNCHANGED otherThanFetch

\* the scrape of the unit returns: its cells are written and the context is
\* closed; after the last unit main returns
SeqReturn ==
    /\ prog = "seq_root"
    /\ pc = "run"
    /\ \E k \in InFlight, v \in FetchCounts :
          /\ tasks' = [tasks EXCEPT ![k] = [st |-> "done", val |-> v]]
          /\ out_row' = [out_row EXCEPT ![k] = [set |-> TRUE, val |-> v]]
          /\ pc' = IF k = Len(tasks) THEN "returned" ELSE pc
    /\ UNCHANGED <<prog, saved>>
    /\ UNCHANGED otherThanFetch

\* the scrape of the unit raises: try/finally closes the context and the
\* exception leaves main
SeqRaises ==
    /\ prog = "seq_root"
    /\ pc = "run"
    /\ \E k \in InFlight : tasks' = [tasks EXCEPT ![k].st = "failed"]
    /\ pc' = "raised"
    /\ UNCHANGED <<prog, out_row, saved>>
    /\ UNCHANGED otherThanFetch

\* main of scripts/soder_impressions.py up to its first `await t`: every
\* task has been created, none has run
SoderCreateTasks ==
    /\ prog = "soder"
    /\ pc = "run"
    /\ tasks' = [k \in DOMAIN TaskKeys |-> Pending]
    /\ pc' = "await"
    /\ UNCHANGED <<prog, out_row, saved>>
    /\ UNCHANGED otherThanFetch

\* fetch_count_rendered of a task: page.goto is issued
SoderTaskStart ==
    /\ prog = "soder"
    /\ pc = "await"
    /\ \E k \in DOMAIN tasks :
          /\ tasks[k].st = "pending"
          /\ tasks' = [tasks EXCEPT ![k].st = "inflight"]
    /\ UNCHANGED <<prog, pc, out_row, saved>>
    /\ UNCHANGED otherThanFetch

\* fetch_count_rendered of a task returns its count
SoderTaskReturn ==
    /\ prog = "soder"
    /\ pc = "await"
    /\ \E k \in InFlight, v \in FetchCounts :
          tasks' = [tasks EXCEPT ![k] = [st |-> "done", val |-> v]]
    /\ UNCHANGED <<prog, pc, out_row, saved>>
    /\ UNCHANGED otherThanFetch

\* fetch_count_rendered of a task raises (page.goto timed out)
SoderTaskRaises ==
    /\ prog = "soder"
    /\ pc = "await"
    /\ \E k \in InFlight : tasks' = [tasks EXCEPT ![k].st = "failed"]
    /\ UNCHANGED <<prog, pc, out_row, saved>>
    /\ UNCHANGED otherThanFetch

\* the first key of tasks whose result main has not read yet
NextKey == CHOOSE k \in DOMAIN out_row :
               ~out_row[k].set /\ \A j \in 1..(k - 1) : out_row[j].set

\* main: `val = await t` for the next key of tasks; the exception of a
\* failed task leaves main; after the last key the row is appended
SoderAwait ==
    /\ prog = "soder"
    /\ pc = "await"
    /\ tasks[NextKey].st \in {"done", "failed"}
    /\ IF tasks[NextKey].st = "failed"
       THEN pc' = "raised" /\ UNCHANGED <<out_row, saved>>
       ELSE /\ out_row' = [out_row EXCEPT ![NextKey] = [set |-> TRUE, val |-> tasks[NextKey].val]]
            /\ IF NextKey = Len(out_row)
               THEN pc' = "returned" /\ saved' = Append(saved, out_row')
               ELSE pc' = pc /\ saved' = saved
    /\ UNCHANGED <<prog, tasks>>
    /\ UNCHANGED otherThanFetch

(***************************************************************************)
(* Two processes writing one workbook file: two runs of adtraction_epc.py  *)
(* (write_cell; the write_cell of scripts/adtraction_epc_brands.py is the  *)
(* same three statements) or two runs of scripts/soder_stats.py            *)
(* (append_row).  The file is its cells, by row and column, and its        *)
(* sheets, by name; load_workbook copies the file into the memory of the   *)
(* process and wb.save replaces the file by that copy.  Each run of        *)
(* adtraction_epc.py writes into the row ensure_sheet_and_new_row gave it: *)
(* row p + 1 for process p, filled with "-".                               *)
(***************************************************************************)
Procs == {1, 2}

Cols == 1..MaxCols

\* the "-" ensure_sheet_and_new_row fills a new row with
Dash == 0

SheetNames == {"Fiskedrag", "SODER_stats"}

\* a row of soder_stats: its datum cell names the run (the process) and the
\* rest is the value counted
SoderRows == [by : Procs, val : 1..MaxVal]

\* a process between two writes; op is the write a process is in
NotLoaded == [loaded |-> FALSE, wb |-> <<>>, op |-> <<>>]

\* ws.cell(row=row_idx, column=col_idx_1based, value=value)
ws_cell(wb, row_idx, col, value) ==
    [wb EXCEPT !.cells = [@ EXCEPT ![<<row_idx, col>>] = value]]

\* the body of append_row between open_or_create_wb and wb.save
append_row(wb, sheet_name, row) ==
    LET rows == IF sheet_name \in DOMAIN wb.sheets THEN wb.sheets[sheet_name] ELSE <<>>
    IN [wb EXCEPT !.sheets = [s \in DOMAIN wb.sheets \cup {sheet_name} |->
                                IF s = sheet_name THEN Append(rows, row) ELSE wb.sheets[s]]]

\* a save that would keep what the file holds of the other rows and sheets
wb_save_merge(copy, file) ==
    [cells |-> [rc \in DOMAIN file.cells |->
                   IF copy.cells[rc] # Dash THEN copy.cells[rc] ELSE file.cells[rc]],
     sheets |-> [s \in DOMAIN file.sheets \cup DOMAIN copy.sheets |->
                   IF s \in DOMAIN file.sheets
                      /\ (s \notin DOMAIN copy.sheets \/ Len(file.sheets[s]) >= Len(copy.sheets[s]))
                   THEN file.sheets[s] ELSE copy.sheets[s]]]

\* wb.save(XLSX): the file becomes the copy of the process
wb_save(copy, file) == copy

\* write_cell, first half: load_workbook and ws.cell
WriteCellLoad ==
    /\ prog = "wb_cells"
    /\ \E p \in Procs, col \in Cols, value \in 1..MaxVal :
          /\ ~mem[p].loaded
          /\ writes[p] < MaxWrites
          /\ mem' = [mem EXCEPT ![p] = [loaded |-> TRUE,
                                        wb |-> ws_cell(disk, p + 1, col, value),
                                        op |-> <<col, value>>]]
    /\ UNCHANGED <<prog, pc, disk, writes, acked>>
    /\ UNCHANGED otherThanWb

\* write_cell, second half: wb.save; the write has returned
WriteCellSave ==
    /\ prog = "wb_cells"
    /\ \E p \in Procs :
          /\ mem[p].loaded
          /\ disk' = wb_save(mem[p].wb, disk)
          /\ mem' = [mem EXCEPT ![p] = NotLoaded]
          /\ writes' = [writes EXCEPT ![p] = @ + 1]
          /\ acked' = [acked EXCEPT ![p].cells[mem[p].op[1]] = mem[p].op[2]]
    /\ UNCHANGED <<prog, pc>>
    /\ UNCHANGED otherThanWb

\* append_row, first half: open_or_create_wb, the sheet, ws.append
AppendRowLoad ==
    /\ prog = "wb_rows"
    /\ \E p \in Procs, sheet_name \in SheetNames, v \in 1..MaxVal :
          /\ ~mem[p].loaded
          /\ writes[p] < MaxWrites
          /\ mem' = [mem EXCEPT ![p] = [loaded |-> TRUE,
                                        wb |-> append_row(disk, sheet_name, [by |-> p, val |-> v]),
                                        op |-> <<sheet_name, [by |-> p, val |-> v]>>]]
    /\ UNCHANGED <<prog, pc, disk, writes, acked>>
    /\ UNCHANGED otherThanWb

\* append_row, second half: wb.save; the write has returned
AppendRowSave ==
    /\ prog = "wb_rows"
    /\ \E p \in Procs :
          /\ mem[p].loaded
          /\ disk' = wb_save(mem[p].wb, disk)
          /\ mem' = [mem EXCEPT ![p] = NotLoaded]
          /\ writes' = [writes EXCEPT ![p] = @ + 1]
          /\ acked' = [acked EXCEPT ![p].rows = Append(@, mem[p].op)]
    /\ UNCHANGED <<prog, pc>>
    /\ UNCHANGED otherThanWb

(***************************************************************************)
(* The workbooks as logs, over sequential runs.  data_sitemap.xlsx is      *)
(* written by scripts/sitemap_fetch.py (sheet databas) and by              *)
(* scripts/sitemap_fetch_changes.py (sheets databas_incl_changes and       *)
(* senaste_korning); data.xlsx is written, among others, by                *)
(* scripts/soder_impressions.py (sheet soder_ads) and scripts/soder_stats  *)
(* (a sheet per category and SODER_stats).  A file is its sheets by name,  *)
(* each the sequence of its data rows; a file without sheets is a file     *)
(* that does not exist.  The sitemap of the model lists the pages of Urls; *)
(* the history of sitemap_fetch.py keeps the lastmod dates of the first.   *)
(* The statuses are written without their diacritics.                      *)
(***************************************************************************)
NoWorkbook == [cells |-> <<>>, sheets |-> <<>>]

exists(file) == DOMAIN file.sheets # {}

\* the file with the sheet (re)written, the other sheets kept: what
\* pd.ExcelWriter(mode="a") and openpyxl's load and save do
with_sheet(file, sheet, rows) ==
    [file EXCEPT !.sheets = [s \in DOMAIN file.sheets \cup {sheet} |->
                               IF s = sheet THEN rows ELSE file.sheets[s]]]

\* pd.ExcelWriter(mode="w"): the file holds the one sheet written
only_sheet(file, sheet, rows) ==
    [file EXCEPT !.sheets = [s \in {sheet} |-> rows]]

sheet_rows(file, sheet) == IF sheet \in DOMAIN file.sheets THEN file.sheets[sheet] ELSE <<>>

Urls == {"a", "b"}

Dates == 1..MaxDays

\* db.sort_values("Senast modifierad", ascending=False) for rows with
\* pairwise different dates
RECURSIVE sort_values(_)
sort_values(rowset) ==
    IF rowset = {} THEN <<>>
    ELSE LET top == CHOOSE r \in rowset : \A q \in rowset : q.date <= r.date
         IN <<top>> \o sort_values(rowset \ {top})

\* main of scripts/sitemap_fetch.py for the dates the sitemap gives for its
\* page: the history is read from sheet databas, the new (date, page) keys
\* are added, the rows are sorted and the file is written anew
sitemap_fetch_main(file, dates) ==
    LET db == sheet_rows(file, "databas")
        existing == {db[i] : i \in 1..Len(db)}
        new_rows == {[date |-> d, url |-> "a"] : d \in dates} \ existing
    IN only_sheet(file, "databas", sort_values(existing \cup new_rows))

SitemapFetchMain ==
    /\ prog = "log_sitemap"
    /\ pc = "idle"
    /\ \E dates \in SUBSET Dates : disk' = sitemap_fetch_main(disk, dates)
    /\ UNCHANGED <<prog, pc, store, report, fetched>>
    /\ UNCHANGED otherThanLog

\* sha256_bytes(data).hexdigest(): one digest per content
sha256_bytes(b) == <<"sha256", b>>

\* db_get_page returns None: the pages table has no row for the URL
NoHash == <<>>

ensure_output_sheet(file) ==
    IF "databas_incl_changes" \in DOMAIN file.sheets THEN file
    ELSE with_sheet(file, "databas_incl_changes", <<>>)

append_rows_to_sheet(file, rows) ==
    LET f == ensure_output_sheet(file)
        existing == sheet_rows(f, "databas_incl_changes")
    IN with_sheet(f, "databas_incl_changes", existing \o rows)

write_latest_sheet(file, rows) ==
    with_sheet(ensure_output_sheet(file), "senaste_korning", rows)

\* the end of main of scripts/sitemap_fetch_changes.py
changes_save(file, all_rows) ==
    IF all_rows # <<>> THEN write_latest_sheet(append_rows_to_sheet(file, all_rows), all_rows)
    ELSE write_latest_sheet(ensure_output_sheet(file), <<>>)

\* a status that skips the comparison with the stored hash
page_status_nocompare(code_p, prev, h) ==
    IF code_p # 200 THEN "Otillganglig"
    ELSE IF prev = NoHash THEN "Ny"
    ELSE "Oforandrad"

\* process_sitemap: the status of a candidate page
page_status(code_p, prev, h) ==
    IF code_p # 200 THEN "Otillganglig"
    ELSE IF prev = NoHash THEN "Ny"
    ELSE IF prev # h THEN "Modifierad"
    ELSE "Oforandrad"

\* process_sitemap: one turn of the loop over the candidates; the first
\* turn of a run comes after main's ensure_output_sheet, and the last one
\* is followed by the end of main
ChangesCandidate ==
    /\ prog = "log_sitemap"
    /\ fetched.n < MaxFetches
    /\ \E page_url \in Urls, code_p \in {200, 404, 0}, data_p \in 1..MaxVal, last \in BOOLEAN :
          LET h == sha256_bytes(data_p)
              prev == store[page_url]
              status == page_status(code_p, prev, h)
              file == IF pc = "idle" THEN ensure_output_sheet(disk) ELSE disk
              per_run_rows == IF pc = "idle" THEN <<>> ELSE report
              rows == IF status = "Oforandrad" THEN per_run_rows
                      ELSE Append(per_run_rows, [url |-> page_url, status |-> status])
          IN /\ fetched' = [n |-> fetched.n + 1, url |-> page_url, code |-> code_p, data |-> data_p]
             /\ store' = IF status \in {"Ny", "Modifierad"}
                         THEN [store EXCEPT ![page_url] = h] ELSE store
             /\ report' = rows
             /\ IF last
                THEN pc' = "idle" /\ disk' = changes_save(file, rows)
                ELSE pc' = "changes" /\ disk' = file
    /\ UNCHANGED prog
    /\ UNCHANGED otherThanLog

\* a run of scripts/sitemap_fetch_changes.py without candidates
ChangesNoCandidates ==
    /\ prog = "log_sitemap"
    /\ pc = "idle"
    /\ disk' = changes_save(ensure_output_sheet(disk), <<>>)
    /\ report' = <<>>
    /\ UNCHANGED <<prog, pc, store, fetched>>
    /\ UNCHANGED otherThanLog

\* append_row_excel of scripts/soder_impressions.py.  Whether the
\* assignment writer.book = wb raises depends on the pandas release (the
\* attribute has no setter in later ones); the except branch then writes
\* the file anew with the one sheet.
append_row_excel(file, sheet, row, raises) ==
    IF ~exists(file) THEN only_sheet(file, sheet, <<row>>)
    ELSE IF sheet \notin DOMAIN file.sheets THEN with_sheet(file, sheet, <<row>>)
    ELSE IF raises THEN only_sheet(file, sheet, <<row>>)
    ELSE with_sheet(file, sheet, Append(file.sheets[sheet], row))

\* main of scripts/soder_impressions.py, its row given
SoderImpressionsMain ==
    /\ prog = "log_data"
    /\ Len(sheet_rows(disk, "soder_ads")) < MaxRows
    /\ \E v \in 1..MaxVal, raises \in BOOLEAN :
          disk' = append_row_excel(disk, "soder_ads", [by |-> 1, val |-> v], raises)
    /\ UNCHANGED <<prog, pc, store, report, fetched>>
    /\ UNCHANGED otherThanLog

\* main of scripts/soder_stats.py: a row for the category, then the row of
\* SODER_stats
SoderStatsMain ==
    /\ prog = "log_data"
    /\ Len(sheet_rows(disk, "SODER_stats")) < MaxRows
    /\ \E v \in 1..MaxVal :
          disk' = append_row(append_row(disk, "Fiskedrag", [by |-> 2, val |-> v]),
                             "SODER_stats", [by |-> 2, val |-> v])
    /\ UNCHANGED <<prog, pc, store, report, fetched>>
    /\ UNCHANGED otherThanLog

(***************************************************************************)
(* The position scans as one specification.                                *)
(***************************************************************************)
Keys(p) ==
    CASE p = "scripts_refine" -> DOMAIN PATTERNS
      [] p = "root_refine" -> DOMAIN ROOT_PATTERNS
      [] OTHER -> DOMAIN HEADSET_PATTERNS

InitRank ==
    /\ prog \in {"scripts_refine", "root_refine", "headset"}
    /\ pc = "run"
    /\ max_pages \in (IF prog = "scripts_refine" THEN 1..MaxPagesBound ELSE {1})
    /\ pageno = 1
    /\ global_pos = 0
    /\ ranks = [key \in Keys(prog) |-> None]
    /\ pages = <<>>
    /\ wbook = NoFile
    /\ now = [date |-> 1, hm |-> 1]
    /\ epc_text = <<>>
    /\ parsed = NoMatch
    /\ iso = <<>>
    /\ rates = <<>>
    /\ unit = 0
    /\ unit_cc = <<>>
    /\ raw = <<>>
    /\ accepted = <<>>
    /\ total_values = <<>>
    /\ cells = <<>>
    /\ saved = <<>>
    /\ html = <<>>
    /\ exit_code = None
    /\ tasks = <<>>
    /\ out_row = <<>>
    /\ disk = <<>>
    /\ mem = <<>>
    /\ writes = <<>>
    /\ acked = <<>>
    /\ store = <<>>
    /\ report = <<>>
    /\ fetched = <<>>
    /\ site = <<>>
    /\ crawl = <<>>
    /\ changes = <<>>
    /\ xlsx = <<>>
    /\ args = <<>>
    /\ monthly = <<>>
    /\ summary = <<>>
    /\ runs = <<>>

NextRank ==
    \/ FetchPage
    \/ GotoRaises
    \/ RefineMainEnd
    \/ RootMain
    \/ HeadsetSearch
    \/ HeadsetGotoRaises

SpecRank == InitRank /\ [][NextRank]_vars

(***************************************************************************)
(* The sheet scripts as one specification: data.xlsx is missing or has no  *)
(* sheet RUGV_aov, and benuta_aov and trendcarpet_aov run in any order,    *)
(* any number of times, over the days.                                     *)
(***************************************************************************)
InitSheet ==
    /\ prog = "aov"
    /\ pc = "run"
    /\ max_pages = 1
    /\ pageno = 1
    /\ global_pos = 0
    /\ ranks = <<>>
    /\ pages = <<>>
    /\ wbook \in {NoFile, NoSheet}
    /\ now = [date |-> 1, hm |-> 1]
    /\ epc_text = <<>>
    /\ parsed = NoMatch
    /\ iso = <<>>
    /\ rates = <<>>
    /\ unit = 0
    /\ unit_cc = <<>>
    /\ raw = <<>>
    /\ accepted = <<>>
    /\ total_values = <<>>
    /\ cells = <<>>
    /\ saved = <<>>
    /\ html = <<>>
    /\ exit_code = None
    /\ tasks = <<>>
    /\ out_row = <<>>
    /\ disk = <<>>
    /\ mem = <<>>
    /\ writes = <<>>
    /\ acked = <<>>
    /\ store = <<>>
    /\ report = <<>>
    /\ fetched = <<>>
    /\ site = <<>>
    /\ crawl = <<>>
    /\ changes = <<>>
    /\ xlsx = <<>>
    /\ args = <<>>
    /\ monthly = <<>>
    /\ summary = <<>>
    /\ runs = <<>>

NextSheet ==
    \/ BenutaMain
    \/ TrendcarpetMain
    \/ Tick

SpecSheet == InitSheet /\ [][NextSheet]_vars

(***************************************************************************)
(* The EPC programs as one specification: one cell text is parsed and, if  *)
(* it gives an observation, its currency is normalised.                    *)
(***************************************************************************)
InitEpc ==
    /\ prog \in {"epc_all", "epc_finance", "epc_root"}
    /\ pc = "cell"
    /\ max_pages = 1
    /\ pageno = 1
    /\ global_pos = 0
    /\ ranks = <<>>
    /\ pages = <<>>
    /\ wbook = NoFile
    /\ now = [date |-> 1, hm |-> 1]
    /\ epc_text \in EpcTexts
    /\ parsed = NoMatch
    /\ iso = <<>>
    /\ rates = <<>>
    /\ unit = 0
    /\ unit_cc = <<>>
    /\ raw = <<>>
    /\ accepted = <<>>
    /\ total_values = <<>>
    /\ cells = <<>>
    /\ saved = <<>>
    /\ html = <<>>
    /\ exit_code = None
    /\ tasks = <<>>
    /\ out_row = <<>>
    /\ disk = <<>>
    /\ mem = <<>>
    /\ writes = <<>>
    /\ acked = <<>>
    /\ store = <<>>
    /\ report = <<>>
    /\ fetched = <<>>
    /\ site = <<>>
    /\ crawl = <<>>
    /\ changes = <<>>
    /\ xlsx = <<>>
    /\ args = <<>>
    /\ monthly = <<>>
    /\ summary = <<>>
    /\ runs = <<>>

NextEpc ==
    \/ ParseAll
    \/ ParseFinance
    \/ ParseRoot
    \/ SkipCell
    \/ NormalizeFinance
    \/ DropAll
    \/ ToSekAll
    \/ ToSekRoot

SpecEpc == InitEpc /\ [][NextEpc]_vars

(***************************************************************************)
(* The EPC aggregates as one specification: one of the three EPC programs  *)
(* runs over its units of work with the rates it fetched at the start.     *)
(***************************************************************************)
InitAgg ==
    /\ prog \in {"agg_all", "agg_finance", "agg_root"}
    /\ pc = "units"
    /\ max_pages = 1
    /\ pageno = 1
    /\ global_pos = 0
    /\ ranks = <<>>
    /\ pages = <<>>
    /\ wbook = NoFile
    /\ now = [date |-> 1, hm |-> 1]
    /\ epc_text = <<>>
    /\ parsed = NoMatch
    /\ iso = <<>>
    /\ rates \in RateTables
    /\ unit = 0
    /\ unit_cc = <<>>
    /\ raw = <<>>
    /\ accepted = <<>>
    /\ total_values = <<>>
    /\ cells = <<>>
    /\ saved = <<>>
    /\ html = <<>>
    /\ exit_code = None
    /\ tasks = <<>>
    /\ out_row = <<>>
    /\ disk = <<>>
    /\ mem = <<>>
    /\ writes = <<>>
    /\ acked = <<>>
    /\ store = <<>>
    /\ report = <<>>
    /\ fetched = <<>>
    /\ site = <<>>
    /\ crawl = <<>>
    /\ changes = <<>>
    /\ xlsx = <<>>
    /\ args = <<>>
    /\ monthly = <<>>
    /\ summary = <<>>
    /\ runs = <<>>

NextAgg ==
    \/ UnitAll
    \/ TotalAll
    \/ UnitFinance
    \/ UnitRoot

SpecAgg == InitAgg /\ [][NextAgg]_vars

(***************************************************************************)
(* The adtraction statistics scripts as one specification: the script is   *)
(* started again and again as time passes, each time on the page the site  *)
(* serves then.                                                            *)
(***************************************************************************)
InitStats ==
    /\ prog \in {"stats", "konv", "stats_root"}
    /\ pc = "run"
    /\ max_pages = 1
    /\ pageno = 1
    /\ global_pos = 0
    /\ ranks = <<>>
    /\ pages = <<>>
    /\ wbook \in (IF prog = "konv" THEN {NoFile} ELSE {NoFile, NoSheet})
    /\ now = [date |-> 1, hm |-> 1]
    /\ epc_text = <<>>
    /\ parsed = NoMatch
    /\ iso = <<>>
    /\ rates = <<>>
    /\ unit = 0
    /\ unit_cc = <<>>
    /\ raw = <<>>
    /\ accepted = <<>>
    /\ total_values = <<>>
    /\ cells = <<>>
    /\ saved = <<>>
    /\ html = <<>>
    /\ exit_code = None
    /\ tasks = <<>>
    /\ out_row = <<>>
    /\ disk = <<>>
    /\ mem = <<>>
    /\ writes = <<>>
    /\ acked = <<>>
    /\ store = <<>>
    /\ report = <<>>
    /\ fetched = <<>>
    /\ site = <<>>
    /\ crawl = <<>>
    /\ changes = <<>>
    /\ xlsx = <<>>
    /\ args = <<>>
    /\ monthly = <<>>
    /\ summary = <<>>
    /\ runs = <<>>

NextStats ==
    \/ StatsMain
    \/ StatsRootMain
    \/ KonvMain
    \/ StatsTick

SpecStats == InitStats /\ [][NextStats]_vars

(***************************************************************************)
(* The page fetches of a run as one specification.                         *)
(***************************************************************************)
InitFetch ==
    /\ prog \in {"seq_root", "soder"}
    /\ pc = "run"
    /\ max_pages = 1
    /\ pageno = 1
    /\ global_pos = 0
    /\ ranks = <<>>
    /\ pages = <<>>
    /\ wbook = NoFile
    /\ now = [date |-> 1, hm |-> 1]
    /\ epc_text = <<>>
    /\ parsed = NoMatch
    /\ iso = <<>>
    /\ rates = <<>>
    /\ unit = 0
    /\ unit_cc = <<>>
    /\ raw = <<>>
    /\ accepted = <<>>
    /\ total_values = <<>>
    /\ cells = <<>>
    /\ saved = <<>>
    /\ html = <<>>
    /\ exit_code = None
    /\ tasks = IF prog = "seq_root" THEN [k \in DOMAIN TaskKeys |-> Pending] ELSE <<>>
    /\ out_row = [k \in DOMAIN TaskKeys |-> NoCell]
    /\ disk = <<>>
    /\ mem = <<>>
    /\ writes = <<>>
    /\ acked = <<>>
    /\ store = <<>>
    /\ report = <<>>
    /\ fetched = <<>>
    /\ site = <<>>
    /\ crawl = <<>>
    /\ changes = <<>>
    /\ xlsx = <<>>
    /\ args = <<>>
    /\ monthly = <<>>
    /\ summary = <<>>
    /\ runs = <<>>

NextFetch ==
    \/ SeqStart
    \/ SeqReturn
    \/ SeqRaises
    \/ SoderCreateTasks
    \/ SoderTaskStart
    \/ SoderTaskReturn
    \/ SoderTaskRaises
    \/ SoderAwait

SpecFetch == InitFetch /\ [][NextFetch]_vars

(***************************************************************************)
(* The workbook writers as one specification: two processes, each doing    *)
(* up to MaxWrites writes, in any interleaving of their loads and saves.   *)
(***************************************************************************)
InitWb ==
    /\ prog \in {"wb_cells", "wb_rows"}
    /\ pc = "run"
    /\ max_pages = 1
    /\ pageno = 1
    /\ global_pos = 0
    /\ ranks = <<>>
    /\ pages = <<>>
    /\ wbook = NoFile
    /\ now = [date |-> 1, hm |-> 1]
    /\ epc_text = <<>>
    /\ parsed = NoMatch
    /\ iso = <<>>
    /\ rates = <<>>
    /\ unit = 0
    /\ unit_cc = <<>>
    /\ raw = <<>>
    /\ accepted = <<>>
    /\ total_values = <<>>
    /\ cells = <<>>
    /\ saved = <<>>
    /\ html = <<>>
    /\ exit_code = None
    /\ tasks = <<>>
    /\ out_row = <<>>
    /\ disk = [cells |-> [rc \in {p + 1 : p \in Procs} \X Cols |-> Dash], sheets |-> <<>>]
    /\ mem = [p \in Procs |-> NotLoaded]
    /\ writes = [p \in Procs |-> 0]
    /\ acked = [p \in Procs |-> [cells |-> [c \in Cols |-> Dash], rows |-> <<>>]]
    /\ store = <<>>
    /\ report = <<>>
    /\ fetched = <<>>
    /\ site = <<>>
    /\ crawl = <<>>
    /\ changes = <<>>
    /\ xlsx = <<>>
    /\ args = <<>>
    /\ monthly = <<>>
    /\ summary = <<>>
    /\ runs = <<>>

NextWb ==
    \/ WriteCellLoad
    \/ WriteCellSave
    \/ AppendRowLoad
    \/ AppendRowSave

SpecWb == InitWb /\ [][NextWb]_vars

(***************************************************************************)
(* The logs as one specification: the scripts of one workbook file run one *)
(* after the other, in any order, starting without the file and with an    *)
(* empty pages table.                                                      *)
(***************************************************************************)
InitLog ==
    /\ prog \in {"log_sitemap", "log_data"}
    /\ pc = "idle"
    /\ max_pages = 1
    /\ pageno = 1
    /\ global_pos = 0
    /\ ranks = <<>>
    /\ pages = <<>>
    /\ wbook = NoFile
    /\ now = [date |-> 1, hm |-> 1]
    /\ epc_text = <<>>
    /\ parsed = NoMatch
    /\ iso = <<>>
    /\ rates = <<>>
    /\ unit = 0
    /\ unit_cc = <<>>
    /\ raw = <<>>
    /\ accepted = <<>>
    /\ total_values = <<>>
    /\ cells = <<>>
    /\ saved = <<>>
    /\ html = <<>>
    /\ exit_code = None
    /\ tasks = <<>>
    /\ out_row = <<>>
    /\ disk = NoWorkbook
    /\ mem = <<>>
    /\ writes = <<>>
    /\ acked = <<>>
    /\ store = [u \in Urls |-> NoHash]
    /\ report = <<>>
    /\ fetched = [n |-> 0, url |-> "a", code |-> 0, data |-> 1]
    /\ site = <<>>
    /\ crawl = <<>>
    /\ changes = <<>>
    /\ xlsx = <<>>
    /\ args = <<>>
    /\ monthly = <<>>
    /\ summary = <<>>
    /\ runs = <<>>

NextLog ==
    \/ SitemapFetchMain
    \/ ChangesCandidate
    \/ ChangesNoCandidates
    \/ SoderImpressionsMain
    \/ SoderStatsMain

SpecLog == InitLog /\ [][NextLog]_vars

(***************************************************************************)
(* Claims about the position scans.                                        *)
(***************************************************************************)
Least(S) == IF S = {} THEN None ELSE CHOOSE i \in S : \A j \in S : i <= j

\* the items collected from the first n fetched pages, in scan order
RECURSIVE CollectedUpTo(_)
CollectedUpTo(n) ==
    IF n = 0 THEN <<>> ELSE CollectedUpTo(n - 1) \o collect_items_on_page(pages[n])

\* the items find_global_ranks has looked at
Scanned == SubSeq(CollectedUpTo(Len(pages)), 1, global_pos)

Satisfying(items, pat) == {i \in 1..Len(items) : PatSearch(pat, items[i].fulltext)}

\* C1: each pattern's result is the 1-based position of the first scanned item that
\* satisfies the pattern, and None iff no scanned item does (so a position, once
\* given, is not replaced by a later item's), in find_global_ranks, find_positions
\* and first_position_for_variant.
C1_FirstMatch ==
    /\ prog = "scripts_refine" =>
          \A key \in DOMAIN PATTERNS :
              ranks[key] = Least(Satisfying(Scanned, PATTERNS[key]))
    /\ (prog = "root_refine" /\ pc = "returned") =>
          \A key \in DOMAIN ROOT_PATTERNS :
              ranks[key] = Least(Satisfying(fetch_items_with_playwright(pages[1]),
                                            ROOT_PATTERNS[key]))
    /\ prog = "headset" =>
          \A k \in 1..Len(pages) :
              ranks[SEARCHES[k]] = Least(Satisfying(collect_items_headset(pages[k]),
                                                    HEADSET_PATTERNS[SEARCHES[k]]))

\* a scan that met two items satisfying one pattern and none satisfying another
C1_Witness ==
    /\ prog = "scripts_refine"
    /\ pc = "returned"
    /\ \E key \in DOMAIN PATTERNS :
          /\ ranks[key] # None
          /\ Cardinality(Satisfying(Scanned, PATTERNS[key])) >= 2
    /\ \E key \in DOMAIN PATTERNS : ranks[key] = None

\* the number of items counted on pages 1..n-1
RECURSIVE CountedBefore(_)
CountedBefore(n) ==
    IF n <= 1 THEN 0
    ELSE CountedBefore(n - 1) + Len(collect_items_on_page(pages[n - 1]))

PagesWith(pat) ==
    {n \in 1..Len(pages) : Satisfying(collect_items_on_page(pages[n]), pat) # {}}

\* C2: the position counter of find_global_ranks is global: the position given to
\* the k-th counted item of page n is k plus the number of items counted on the
\* pages before n, and between two pages the counter holds the number of items
\* counted so far.
C2_GlobalPosition ==
    prog = "scripts_refine" =>
        /\ pc = "run" => global_pos = CountedBefore(Len(pages) + 1)
        /\ \A key \in DOMAIN PATTERNS :
              ranks[key] # None =>
                  LET n == Least(PagesWith(PATTERNS[key]))
                  IN  /\ n # None
                      /\ ranks[key] =
                            Least(Satisfying(collect_items_on_page(pages[n]), PATTERNS[key]))
                            + CountedBefore(n)

\* a position given on the second page, beyond the items of the first
C2_Witness ==
    /\ prog = "scripts_refine"
    /\ Len(pages) = 2
    /\ Len(collect_items_on_page(pages[1])) >= ShortPage
    /\ \E key \in DOMAIN PATTERNS : ranks[key] > Len(collect_items_on_page(pages[1]))

\* every tile displayed on the first n fetched pages, in display order
RECURSIVE Displayed(_)
Displayed(n) == IF n = 0 THEN <<>> ELSE Displayed(n - 1) \o pages[n]

TileSponsored(kind) == looks_sponsored_text(Tile(kind).fulltext)
NonSponsored(kind) == ~TileSponsored(kind)
ReadNonSponsored(kind) == Tile(kind).readable /\ ~TileSponsored(kind)
ReadNonSponsoredNonEmpty(kind) ==
    /\ Tile(kind).readable
    /\ ~TileSponsored(kind)
    /\ (Tile(kind).title # <<>> \/ Tile(kind).fulltext # <<>>)

\* position g belongs to a non-sponsored tile that satisfies pat and has g - 1
\* tiles that count displayed before it
PositionRule(tiles, g, pat, Txt(_), Counts(_)) ==
    \E i \in 1..Len(tiles) :
        /\ Tile(tiles[i]).readable
        /\ ~TileSponsored(tiles[i])
        /\ PatSearch(pat, Txt(Tile(tiles[i])))
        /\ g = 1 + Cardinality({j \in 1..(i - 1) : Counts(tiles[j])})

\* C3 (as amended): a sponsored tile is never given a position and consumes none,
\* and neither does a tile whose text cannot be read (nor, in fractal_headset.py
\* and fractal_refine.py, a tile without any text): a position is 1 plus the
\* number of read, non-sponsored tiles displayed before the tile it is given to.
C3_SponsoredSkipped ==
    /\ prog = "scripts_refine" =>
          \A key \in DOMAIN PATTERNS :
              ranks[key] # None =>
                  PositionRule(Displayed(Len(pages)), ranks[key], PATTERNS[key],
                               ItemText, ReadNonSponsored)
    /\ (prog = "root_refine" /\ pc = "returned") =>
          \A key \in DOMAIN ROOT_PATTERNS :
              ranks[key] # None =>
                  PositionRule(pages[1], ranks[key], ROOT_PATTERNS[key],
                               ItemTextTitled, ReadNonSponsoredNonEmpty)
    /\ prog = "headset" =>
          \A k \in 1..Len(pages) :
              ranks[SEARCHES[k]] # None =>
                  PositionRule(pages[k], ranks[SEARCHES[k]], HEADSET_PATTERNS[SEARCHES[k]],
                               ItemTextTitled, ReadNonSponsoredNonEmpty)

\* C3 as stated: a position is 1 plus the number of non-sponsored tiles displayed
\* before the tile it is given to.
C3_Original ==
    /\ prog = "scripts_refine" =>
          \A key \in DOMAIN PATTERNS :
              ranks[key] # None =>
                  PositionRule(Displayed(Len(pages)), ranks[key], PATTERNS[key],
                               ItemText, NonSponsored)
    /\ prog = "headset" =>
          \A k \in 1..Len(pages) :
              ranks[SEARCHES[k]] # None =>
                  PositionRule(pages[k], ranks[SEARCHES[k]], HEADSET_PATTERNS[SEARCHES[k]],
                               ItemTextTitled, NonSponsored)

\* a matching tile shown behind a sponsored tile that would match too
C3_Witness ==
    /\ prog = "scripts_refine"
    /\ Len(pages) >= 1
    /\ Len(pages[1]) >= 2
    /\ TileSponsored(pages[1][1])
    /\ PatSearch(PATTERNS["Fabric Dark"], ItemText(Tile(pages[1][1])))
    /\ ~TileSponsored(pages[1][2])
    /\ ranks["Fabric Dark"] = 1

LastShort == pages # <<>> /\ Len(collect_items_on_page(pages[Len(pages)])) < ShortPage

\* C4 (as amended): find_global_ranks goes on to the next page until every pattern
\* has a position, max_pages pages have been scanned, or a scanned page held fewer
\* than ShortPage counted items, and then returns (with None for every pattern
\* still unmatched); it never scans more than max_pages pages.
C4_StopRule ==
    prog = "scripts_refine" =>
        /\ Len(pages) <= max_pages
        /\ pc = "returned" =>
              AllFound(ranks) \/ Len(pages) = max_pages \/ LastShort
        /\ pc = "run" =>
              ~AllFound(ranks) /\ Len(pages) < max_pages /\ ~LastShort

\* C4 as stated: the scan ends only with every pattern found or max_pages pages scanned
C4_Original ==
    (prog = "scripts_refine" /\ pc = "returned") =>
        AllFound(ranks) \/ Len(pages) = max_pages

\* a scan that returned, with a pattern unmatched, after one short page of two allowed
C4_Witness ==
    /\ prog = "scripts_refine"
    /\ pc = "returned"
    /\ Len(pages) < max_pages
    /\ LastShort
    /\ \E key \in DOMAIN PATTERNS : ranks[key] = None
    /\ \E key \in DOMAIN PATTERNS : ranks[key] # None

HasAnchors(items, g, line) ==
    /\ g \in 1..Len(items)
    /\ InText("fractal", items[g].fulltext)
    /\ InText(line, items[g].fulltext)

\* C5: the item a pattern's position points at always holds the anchor terms, the
\* brand "fractal" and the product line ("refine" or "scape"); an item that has a
\* colour or material word but not the anchors is never the one.
C5_AnchorsRequired ==
    /\ prog = "scripts_refine" =>
          \A key \in DOMAIN PATTERNS :
              ranks[key] # None =>
                  HasAnchors(CollectedUpTo(Len(pages)), ranks[key], "refine")
    /\ (prog = "root_refine" /\ pc = "returned") =>
          \A key \in DOMAIN ROOT_PATTERNS :
              ranks[key] # None =>
                  HasAnchors(fetch_items_with_playwright(pages[1]), ranks[key], "refine")
    /\ prog = "headset" =>
          \A k \in 1..Len(pages) :
              ranks[SEARCHES[k]] # None =>
                  HasAnchors(collect_items_headset(pages[k]), ranks[SEARCHES[k]], "scape")

\* a listing whose first item has only the colour and material words, passed over
\* for the item behind it
C5_Witness ==
    /\ prog = "root_refine"
    /\ pc = "returned"
    /\ Len(pages[1]) >= 2
    /\ pages[1][1] = "colour"
    /\ ranks["fabric_dark"] = 2

(***************************************************************************)
(* Claims about the sheet upsert.  They are stated for every call main can *)
(* make in a reachable state of the workbook: before is the workbook the   *)
(* call finds, after the one it saves.                                     *)
(***************************************************************************)
Scripts == {BENUTA, TRENDCARPET}

\* the value pairs with which main calls append_to_excel
Calls == {v \in Aov \X Aov : ~(v[1] = None /\ v[2] = None)}

After(S, v) == main(S, wbook, now, v[1], v[2])

\* the data rows (as indices of rows) whose column-A date is the given day
RowsOf(ws, day) == {r \in 1..Len(ws.rows) : _parse_excel_date(ws.rows[r][1]) = day}

\* the columns that carry the label
ColsOf(ws, label) == {c \in 1..Len(ws.hdr) : ws.hdr[c] = label}

\* the labels of S the header lacks
Missing(S, hdr) == {l \in {S.l100, S.l50} : \A c \in 1..Len(hdr) : hdr[c] # l}

\* what the call asked to store under the label (None: nothing)
Asked(S, v, label) == IF label = S.l100 THEN v[1] ELSE IF label = S.l50 THEN v[2] ELSE None

\* the header of before is kept in place and the labels it lacked, and only
\* they, are added to its right
HeaderExtended(S, hdr, after) ==
    /\ Len(after.hdr) = Len(hdr) + Cardinality(Missing(S, hdr))
    /\ SubSeq(after.hdr, 1, Len(hdr)) = hdr
    /\ \A c \in (Len(hdr) + 1)..Len(after.hdr) : after.hdr[c] \in Missing(S, hdr)
    /\ \A l \in {S.l100, S.l50} : Cardinality(ColsOf(after, l)) = 1

\* row r of after holds what the call asked for in the columns of S and, in
\* every other column, what old holds there (blank beyond the width of old)
RowWritten(S, v, after, r, old) ==
    \A c \in 1..Len(after.hdr) :
        after.rows[r][c] =
            IF Asked(S, v, after.hdr[c]) # None THEN Asked(S, v, after.hdr[c])
            ELSE IF c <= Len(old) THEN old[c] ELSE Blank(c)

RowKept(after, r, old) ==
    \A c \in 1..Len(after.hdr) :
        after.rows[r][c] = IF c <= Len(old) THEN old[c] ELSE Blank(c)

Upserted(S, v, before, after) ==
    LET hdr == IF before.state = "sheet" THEN before.hdr ELSE S.cols
        n == Len(before.rows)
        hit == RowsOf(before, now.date)
        stamped == [c \in 1..Len(hdr) |-> IF c = 1 THEN strftime(now) ELSE None]
    IN /\ after.state = "sheet"
       /\ HeaderExtended(S, hdr, after)
       /\ IF hit # {}
          THEN /\ Len(after.rows) = n
               /\ \A r \in 1..n :
                     IF r = Least(hit) THEN RowWritten(S, v, after, r, before.rows[r])
                     ELSE RowKept(after, r, before.rows[r])
          ELSE /\ Len(after.rows) = n + 1
               /\ \A r \in 1..n : RowKept(after, r, before.rows[r])
               /\ RowWritten(S, v, after, n + 1, stamped)

EpcProgs == {"epc_all", "epc_finance", "epc_root"}

Read == prog \in EpcProgs /\ pc # "cell"

NoDataPhrases ==
    { <<"i", "n", "g", "a", " ", "d", "a", "t", "a">>,
      <<"i", "n", "g", "e", "n", " ", "d", "a", "t", "a">>,
      <<"n", "o", " ", "d", "a", "t", "a">> }

\* the positions at which t contains the phrase, in any letter case
Occurs(t, ph) ==
    {i \in 1..(Len(t) - Len(ph) + 1) : lower(SubSeq(t, i, i + Len(ph) - 1)) = ph}

\* the occurrence at i is not part of a longer word or number
Apart(t, i, ph) ==
    /\ i = 1 \/ t[i - 1] \notin WordChars
    /\ i + Len(ph) > Len(t) \/ t[i + Len(ph)] \notin WordChars

\* C8 as stated: a cell text that contains a no-data phrase anywhere, in any
\* letter case, gives no match.
C8_Original ==
    Read /\ (\E ph \in NoDataPhrases : Occurs(epc_text, ph) # {}) => ~parsed.ok

\* C8: a cell text that contains 'inga data', 'ingen data' or 'no data', in
\* any letter case and not directly preceded or followed by a letter, a digit
\* or an underscore, gives no match, whatever digits and currency tokens it
\* holds before or after the phrase.
C8_NoDataPhrase ==
    Read /\ (\E ph \in NoDataPhrases : \E i \in Occurs(epc_text, ph) : Apart(epc_text, i, ph))
        => ~parsed.ok

\* the cell was skipped although an amount with its currency token stands
\* before a phrase in capitals
C8_Witness ==
    /\ prog \in EpcProgs
    /\ pc = "skipped"
    /\ Occurs(epc_text, <<"i", "n", "g", "a", " ", "d", "a", "t", "a">>) # {}
    /\ CURRENCY_REGEX(epc_text).ok
    /\ CURRENCY_REGEX(epc_text).cur = <<"k", "r">>

\* C9 as stated: for an amount written as thousands group, digits and
\* fraction, followed by a currency token, parse_epc_cell returns the number
\* with the spaces stripped and the comma read as decimal point, and the
\* token: '129,90 kr' gives 129.90 'kr' and '1 234 kr' gives 1234 'kr'.
C9_Original ==
    \A th \in Thousands, n \in Ints, f \in Fractions, g \in Gaps, k \in Tokens \ {<<>>} :
        prog \in {"epc_all", "epc_finance"} /\ pc # "cell"
            /\ epc_text = th \o n \o f \o g \o k
        => /\ parsed.ok
           /\ parsed.cur = k
           /\ [ok |-> TRUE, num |-> parsed.num, den |-> parsed.den] = to_float(th \o n \o f)

TwelveFifty == <<"1", "2", ".", "5", "0">>

\* C10 as stated: the text of the euro sign followed by 12.50 gives the
\* value 12.50 and, after the symbol mapping, the currency EUR.
C10_Original ==
    Read /\ epc_text = <<"EURO">> \o TwelveFifty
        => /\ parsed.ok /\ parsed.num = 125 /\ parsed.den = 10
           /\ pc # "skipped"
           /\ pc = "normalized" => iso = EUR

\* C10: a currency symbol is recognised where it follows the number, with or
\* without white space between them, and is then mapped to its ISO code: the
\* euro sign after 12.50 gives 12.50 and EUR; an amount that only has the
\* symbol in front of it gives no match.
C10_SymbolAfterNumber ==
    \A n \in Ints, f \in Fractions, g \in Gaps :
        /\ Read /\ epc_text = n \o f \o g \o <<"EURO">>
            => /\ parsed.ok
               /\ [ok |-> TRUE, num |-> parsed.num, den |-> parsed.den] = to_float(n \o f)
               /\ pc # "skipped"
               /\ pc = "normalized" => iso = EUR
        /\ Read /\ epc_text = <<"EURO">> \o n \o f
            => ~parsed.ok /\ pc # "normalized"

\* the text of 12.50 followed by the euro sign has been parsed and normalised
C10_Witness ==
    /\ prog \in EpcProgs
    /\ pc = "normalized"
    /\ epc_text = TwelveFifty \o <<"EURO">>
    /\ parsed.num = 125 /\ parsed.den = 10
    /\ iso = EUR

(***************************************************************************)
(* Claims about the EPC aggregates.                                        *)
(***************************************************************************)
\* a unit of work of one of the given programs has been processed
Processed(progs) == prog \in progs /\ unit > 0

\* the observation is in euro: the token EUR or the euro sign
IsEuro(o) == o.cur \in {EUR, <<"EURO">>}

InEuroBand(o) == Between(Q(1, 100), o.v, Q(20, 1))

ValuesOf(items) == [i \in 1..Len(items) |-> items[i].v]

\* C11 as stated: of the euro observations of a unit (token EUR or euro sign)
\* exactly those with a value in [0.01, 20] enter the aggregate that is
\* filtered in local currency, with their values unchanged, and the written
\* count is their number.
C11_Original ==
    \A a \in {"local", "0_200"} :
        /\ Processed({"agg_all", "agg_finance"})
        /\ a \in DOMAIN accepted
        /\ \A i \in 1..Len(raw) : IsEuro(raw[i])
        => /\ accepted[a] = ValuesOf(SelectSeq(raw, InEuroBand))
           /\ cells[a] = count_cell(ValuesOf(SelectSeq(raw, InEuroBand)))

\* the currency the program converts the observation from
CurOf(o) == IF prog = "agg_root" THEN to_sek_currency_root(o.cur)
            ELSE normalize_currency(o.cur, unit_cc)

\* what the program's to_sek returns for the observation
SekOf(o) == IF prog = "agg_root" THEN to_sek_root(o.v, o.cur, rates)
            ELSE to_sek(o.v, o.cur, rates, unit_cc)

NoRate(o) == CurOf(o) # SEK /\ CurOf(o) \notin DOMAIN rates

HasRate(o) == ~NoRate(o)

\* C12: for an observation whose currency is not SEK and has no entry in
\* rates, to_sek returns None (not 0), and the observation is in neither the
\* values nor the count of an aggregate computed from converted values: the
\* unit aggregate and the Total of adtraction_epc.py, the Total of
\* adtraction_epc_all.py.
C12_Unavailable ==
    Processed({"agg_all", "agg_root"})
    => /\ \A i \in 1..Len(raw) : NoRate(raw[i]) => SekOf(raw[i]) = NoFloat
       /\ prog = "agg_root"
          => /\ accepted["sek"] = filtered_root(SelectSeq(raw, HasRate), rates)
             /\ cells["sek"] = count_cell(accepted["sek"])
             /\ Len(accepted["sek"]) <= Len(SelectSeq(raw, HasRate))
             /\ unit = 1 => total_values = accepted["sek"]
       /\ prog = "agg_all" /\ unit = 1
          => /\ total_values = converted(SelectSeq(filter_local(raw), HasRate), rates, unit_cc)
             /\ Len(total_values) <= Len(SelectSeq(raw, HasRate))
       /\ prog = "agg_all" /\ pc = "done" => cells["total"] = count_cell(total_values)

\* adtraction_epc.py has processed a unit with a NOK observation for which
\* rates has no entry and a euro observation that entered the aggregate
C12_Witness ==
    /\ Processed({"agg_root"})
    /\ \E i \in 1..Len(raw) : raw[i].cur = NOK /\ NoRate(raw[i])
    /\ \E i \in 1..Len(raw) : raw[i].cur = EUR
    /\ Len(accepted["sek"]) = 1

\* the observation has a currency other than SEK with a usable rate
Convertible(o) == CurOf(o) # SEK /\ ~Falsy(rates_get(rates, CurOf(o)))

\* C13 as stated: to_sek is the amount multiplied by the rate.
C13_Original ==
    Processed({"agg_all", "agg_root"})
    => \A i \in 1..Len(raw) :
          Convertible(raw[i]) => SekOf(raw[i]) = QTimes(raw[i].v, rates[CurOf(raw[i])])

\* C13: a rate is the number of units of the currency per 1 SEK: for a
\* currency other than SEK with a non-zero rate r, to_sek is the amount
\* divided by r, that is, to_sek times r gives the amount back.
C13_RateDivides ==
    Processed({"agg_all", "agg_root"})
    => \A i \in 1..Len(raw) :
          Convertible(raw[i])
          => /\ SekOf(raw[i]).ok
             /\ QTimes(SekOf(raw[i]), rates[CurOf(raw[i])]) = raw[i].v

\* 10 EUR at 0.1 EUR per SEK came out as 100 SEK, and 10 NOK at 2 NOK per
\* SEK as 5 SEK
C13_Witness ==
    /\ Processed({"agg_all"})
    /\ Len(raw) = 2
    /\ raw[1] = [v |-> Q(10, 1), cur |-> EUR] /\ SekOf(raw[1]) = Q(100, 1)
    /\ raw[2] = [v |-> Q(10, 1), cur |-> NOK] /\ SekOf(raw[2]) = Q(5, 1)
    /\ total_values = <<Q(100, 1), Q(5, 1)>>

\* the krona of the unit's country
KroneOf(cc) ==
    CASE cc = <<"D", "K">> -> DKK
      [] cc = <<"N", "O">> -> NOK
      [] OTHER -> SEK

\* C14 as stated: in every EPC program an observation with the token kr, in
\* any letter case, is taken to be in the krona of the unit's country.
C14_Original ==
    Processed({"agg_all", "agg_finance", "agg_root"})
    => \A i \in 1..Len(raw) :
          lower(raw[i].cur) = <<"k", "r">> => CurOf(raw[i]) = KroneOf(unit_cc)

(***************************************************************************)
(* Claims about failures.                                                  *)
(***************************************************************************)
\* C15 as stated: a navigation that still fails after its attempts never
\* ends the run of fractal_headset.py: the run goes through every search
\* and saves its row, with "-" for a search without a position.
C15_Original ==
    prog = "headset"
    => /\ pc # "raised"
       /\ pc # "run"
          => /\ Len(pages) = Len(SEARCHES)
             /\ Len(saved) = 1
             /\ \A k \in 1..Len(SEARCHES) :
                   saved[1][k] = rank_cell(ranks[SEARCHES[k]])

\* the label the script looks for is not in the page
LabelMissing(page) ==
    /\ page.status = 200
    /\ \/ prog = "stats" /\ LabelNames \ page.has # {}
       \/ prog = "konv" /\ "Konverteringar" \notin page.has

\* C16: a run of an adtraction statistics script that fetched a page without
\* an expected label ends with exit code 1 and leaves the data rows of its
\* output as they were.
C16_FatalOnMissingLabel ==
    [][(prog \in {"stats", "konv"} /\ pc = "run" /\ pc' = "exited" /\ LabelMissing(html'))
       => (exit_code' = 1 /\ wbook'.rows = wbook.rows)]_vars

\* a run on a page without the label Varumarken has exited with code 1, and
\* the rows of the runs before it are in the sheet
C16_Witness ==
    /\ prog = "stats"
    /\ pc = "exited"
    /\ html # <<>>
    /\ html.status = 200
    /\ html.has = {"Konverteringar"}
    /\ exit_code = 1
    /\ Len(wbook.rows) = 2

(***************************************************************************)
(* Claims about the order of the page fetches.                             *)
(***************************************************************************)
\* C17 as stated: in a run of either script no two page fetches are in
\* flight together.
C17_Original ==
    prog \in {"seq_root", "soder"} => Cardinality(InFlight) <= 1

\* C17: in adtraction_epc.py, which opens one browser context per unit, the
\* fetch of a unit starts only after every unit before it is done, so at
\* most one fetch is in flight; scripts/soder_impressions.py creates all
\* its fetches as tasks of one context before it awaits any, so several can
\* be in flight together, and it reads their results in the order of the
\* task keys.
C17_SequentialContexts ==
    /\ prog = "seq_root"
       => /\ Cardinality(InFlight) <= 1
          /\ \A k \in DOMAIN tasks :
                tasks[k].st # "pending" => \A j \in 1..(k - 1) : tasks[j].st = "done"
          /\ \A k \in DOMAIN out_row : out_row[k].set <=> tasks[k].st = "done"
    /\ prog = "soder"
       => \A k \in DOMAIN out_row :
             out_row[k].set
             => /\ \A j \in 1..(k - 1) : out_row[j].set
                /\ tasks[k].st = "done" /\ out_row[k].val = tasks[k].val

\* adtraction_epc.py is fetching its second unit, the first one is written
C17_Witness ==
    /\ prog = "seq_root"
    /\ tasks[1].st = "done" /\ out_row[1].set
    /\ tasks[2].st = "inflight"

(***************************************************************************)
(* Claims about the workbook files.                                        *)
(***************************************************************************)
\* a cell or row that a completed write of process p saved is not in the file
Lost(p) ==
    \/ \E c \in Cols : acked[p].cells[c] # Dash /\ disk.cells[<<p + 1, c>>] # acked[p].cells[c]
    \/ \E i \in 1..Len(acked[p].rows) :
          LET sheet_name == acked[p].rows[i][1]
              row == acked[p].rows[i][2]
          IN \/ sheet_name \notin DOMAIN disk.sheets
             \/ \A r \in 1..Len(disk.sheets[sheet_name]) : disk.sheets[sheet_name][r] # row

\* C18: a write is load-whole-file, modify, save-whole-file with no lock:
\* whenever the file changes, it becomes the copy that some process loaded
\* earlier with that process's one modification, whatever the file held at
\* that moment; and a process may load while another is between its load
\* and its save.
C18_LoadModifySave ==
    [][disk' # disk
       => \E p \in Procs :
             /\ mem[p].loaded /\ ~mem'[p].loaded
             /\ disk' = mem[p].wb
             /\ \A q \in Procs \ {p} : mem'[q] = mem[q]]_vars

\* both processes have completed a write, and what the first one saved is
\* missing from the file after the save of the second
C18_Witness ==
    /\ prog \in {"wb_cells", "wb_rows"}
    /\ writes[1] = 1 /\ writes[2] = 1
    /\ ~mem[1].loaded /\ ~mem[2].loaded
    /\ Lost(1)
    /\ ~Lost(2)

\* the sheets that are logs; senaste_korning holds the last run only
LogSheets == {"databas", "databas_incl_changes", "soder_ads", "Fiskedrag", "SODER_stats"}

\* every row of the sequence is a row of the other
RowsKept(old, new) == \A i \in 1..Len(old) : \E j \in 1..Len(new) : new[j] = old[i]

\* C19 as stated: a run removes no sheet of the workbook file, and no row
\* of a log sheet.
C19_Original ==
    [][\A s \in DOMAIN disk.sheets :
          /\ s \in DOMAIN disk'.sheets
          /\ s \in LogSheets => RowsKept(disk.sheets[s], disk'.sheets[s])]_vars

(***************************************************************************)
(* Claims about the change detection of the sitemap pages.                 *)
(***************************************************************************)
\* the step is one turn of process_sitemap's loop over the candidates
Handled == prog = "log_sitemap" /\ fetched'.n = fetched.n + 1

\* the report rows the turn added
Reported == IF Len(report') = 0 THEN <<>>
            ELSE IF pc = "changes" /\ Len(report') = Len(report) THEN <<>>
            ELSE <<report'[Len(report')]>>

IsReport(status) == Reported = <<[url |-> fetched'.url, status |-> status]>>

\* C20: for a candidate page whose fetch is not HTTP 200 the report has
\* Otillganglig and the pages table is unchanged; otherwise the report has
\* Ny iff the table had no hash for the URL, Modifierad iff it had a hash
\* other than that of the fetched content, and no row iff it had that hash;
\* after Ny and Modifierad the table has the hash of the fetched content,
\* and no other entry of the table changes.
C20_ChangeDetection ==
    [][Handled
       => LET u == fetched'.url
              h == <<"sha256", fetched'.data>>
          IN /\ \A v \in Urls \ {u} : store'[v] = store[v]
             /\ fetched'.code # 200 => IsReport("Otillganglig") /\ store' = store
             /\ fetched'.code = 200
                => /\ IsReport("Ny") <=> store[u] = <<>>
                   /\ IsReport("Modifierad") <=> (store[u] # <<>> /\ store[u] # h)
                   /\ Reported = <<>> <=> store[u] = h
                   /\ store'[u] = h]_vars

\* page a was fetched once with content 1 and now with content 2: the
\* report of the run has Modifierad for it and the table has the new hash
C20_Witness ==
    /\ prog = "log_sitemap"
    /\ fetched.n = 2 /\ fetched.url = "a" /\ fetched.code = 200 /\ fetched.data = 2
    /\ store["a"] = <<"sha256", 2>>
    /\ report # <<>>
    /\ report[Len(report)] = [url |-> "a", status |-> "Modifierad"]

(***************************************************************************)
(* The sitemap crawl of scripts/sitemap_fetch_changes.py: main calls       *)
(* process_sitemap for each sitemap of its list, process_sitemap calls     *)
(* itself for the children of a sitemap index and fetches the candidate    *)
(* pages of a urlset.  A call in progress is a frame of crawl.stack.       *)
(***************************************************************************)
MaxDepth == 4           \* calls of process_sitemap in progress at a time

Sitemaps == {"i", "j", "a"}

PageUrls == {"p", "q"}

\* the first day of the clock is not before MIN_LASTMOD_DATE; a lastmod of
\* 0 is a date before it.  A lastmod is <<>> (None) or <<date>>.
MIN_LASTMOD_DATE == 1

Lastmods == {<<>>} \cup {<<d>> : d \in 0..MaxDays}

UrlEntry(loc, lastmod) == [loc |-> loc, lastmod |-> lastmod]

\* the pages table has no row for the URL
NoPage == [last_fetched |-> None, content_hash |-> NoHash]

db_get_page(con, url) == con[url]

db_upsert_page(con, url, content_hash) ==
    [con EXCEPT ![url] = [last_fetched |-> now.date, content_hash |-> content_hash]]

db_insert_change(tbl, url, status) == Append(tbl, [url |-> url, status |-> status])

max(x, y) == IF x >= y THEN x ELSE y

\* a selection that takes a known page only when its lastmod is later than
\* its last fetch
candidate_later(con, e) ==
    LET prev == db_get_page(con, e.loc)
    IN  \/ prev = NoPage
        \/ e.lastmod = <<>>
        \/ e.lastmod[1] > max(prev.last_fetched, MIN_LASTMOD_DATE)

\* pick_candidates: the test of one entry
candidate(con, e) ==
    LET prev == db_get_page(con, e.loc)
        prev_last_fetched == prev.last_fetched
    IN  \/ prev = NoPage
        \/ e.lastmod = <<>>
        \/ e.lastmod[1] >= max(prev_last_fetched, MIN_LASTMOD_DATE)

pick_candidates(con, entries) ==
    LET keep(e) == candidate(con, e)
    IN  SelectSeq(entries, keep)

\* what a sitemap URL serves: a sitemap index, a urlset, a status other than
\* 200, or nothing that http_get or parse_sitemap_xml can take (they raise)
Index(children) == [kind |-> "index", sm_urls |-> children, entries |-> <<>>]

Urlset(entries) == [kind |-> "urlset", sm_urls |-> <<>>, entries |-> entries]

NotOk == [kind |-> "code", sm_urls |-> <<>>, entries |-> <<>>]

Broken == [kind |-> "raises", sm_urls |-> <<>>, entries |-> <<>>]

Sites ==
    LET one == {<<x>> : x \in Sitemaps}
        two == {<<x, y>> : x \in Sitemaps, y \in Sitemaps}
        i_serves == {Index(c) : c \in one \cup two}
        j_serves == {Index(c) : c \in one} \cup {Broken, Urlset(<<UrlEntry("q", <<>>)>>)}
        a_serves == {Urlset(<<>>), NotOk, Broken,
                     Urlset(<<UrlEntry("p", <<1>>), UrlEntry("p", <<1>>)>>)}
                    \cup {Urlset(<<UrlEntry("p", lm)>>) : lm \in Lastmods}
                    \cup {Urlset(<<UrlEntry("p", lm), UrlEntry("q", <<>>)>>) : lm \in Lastmods}
    IN  {[sm \in Sitemaps |-> CASE sm = "i" -> si [] sm = "j" -> sj [] OTHER -> sa] :
            si \in i_serves, sj \in j_serves, sa \in a_serves}

\* the pages tables an earlier run can have left
PageStores ==
    LET p_rows == {NoPage} \cup {[last_fetched |-> d, content_hash |-> sha256_bytes(1)] : d \in Dates}
        q_rows == {NoPage, [last_fetched |-> 1, content_hash |-> sha256_bytes(1)]}
    IN  {[u \in PageUrls |-> IF u = "p" THEN rp ELSE rq] : rp \in p_rows, rq \in q_rows}

Frame(sm_url) == [sm |-> sm_url, phase |-> "call", k |-> 1, cands |-> <<>>, rows |-> <<>>]

Top == crawl.stack[Len(crawl.stack)]

\* a selection that never finds the sitemap among the seen ones
already_seen_never(sm_url, seen_sitemaps) == FALSE

\* process_sitemap: if sm_url in seen_sitemaps
already_seen(sm_url, seen_sitemaps) == sm_url \in seen_sitemaps

\* the call on top returns rows: its caller extends its own rows with them,
\* and main extends all_rows
Returned(c, rows) ==
    LET rest == SubSeq(c.stack, 1, Len(c.stack) - 1)
    IN  IF rest = <<>> THEN [c EXCEPT !.stack = <<>>]
        ELSE [c EXCEPT !.stack = [rest EXCEPT ![Len(rest)].rows = @ \o rows]]

ReturnedRows(c, rows) == IF Len(c.stack) = 1 THEN report \o rows ELSE report

\* main: the next turn of the loop over the sitemaps
CrawlMainCall ==
    /\ prog = "crawl"
    /\ pc = "main"
    /\ crawl.stack = <<>>
    /\ crawl.todo # <<>>
    /\ crawl' = [crawl EXCEPT !.stack = <<Frame(Head(crawl.todo))>>, !.todo = Tail(crawl.todo)]
    /\ UNCHANGED <<prog, pc, now, site, store, report, changes, disk>>
    /\ UNCHANGED otherThanCrawl

\* process_sitemap from its entry to its first call of itself, its first
\* page fetch or its return
ProcessSitemapEnter ==
    /\ prog = "crawl"
    /\ crawl.stack # <<>>
    /\ Top.phase = "call"
    /\ LET sm_url == Top.sm
           serves == site[sm_url]
           entered == [crawl EXCEPT !.seen = @ \cup {sm_url},
                                    !.fetches[sm_url] = @ + 1]
           candidates == pick_candidates(store, serves.entries)
       IN  IF already_seen(sm_url, crawl.seen)
           THEN crawl' = Returned(crawl, <<>>) /\ report' = report
           ELSE CASE serves.kind = "raises" ->
                       \* the exception leaves every call in progress and is
                       \* caught in main
                       crawl' = [entered EXCEPT !.stack = <<>>] /\ report' = report
                  [] serves.kind = "code" ->
                       crawl' = Returned(entered, <<>>) /\ report' = report
                  [] serves.kind = "index" ->
                       /\ crawl' = [entered EXCEPT !.stack[Len(crawl.stack)].phase = "children"]
                       /\ report' = report
                  [] OTHER ->
                       IF candidates = <<>>
                       THEN crawl' = Returned([entered EXCEPT !.picked = candidates], <<>>)
                            /\ report' = report
                       ELSE /\ crawl' = [entered EXCEPT !.picked = candidates,
                                                        !.stack[Len(crawl.stack)].phase = "pages",
                                                        !.stack[Len(crawl.stack)].cands = candidates]
                            /\ report' = report
    /\ UNCHANGED <<prog, pc, now, site, store, changes, disk>>
    /\ UNCHANGED otherThanCrawl

\* process_sitemap of a sitemap index: the next turn of the loop over the
\* children, or the return after the last one
ProcessSitemapChild ==
    /\ prog = "crawl"
    /\ crawl.stack # <<>>
    /\ Top.phase = "children"
    /\ LET sm_urls == site[Top.sm].sm_urls
       IN  IF Top.k <= Len(sm_urls)
           THEN /\ Len(crawl.stack) < MaxDepth
                /\ crawl' = [crawl EXCEPT !.stack =
                               Append([crawl.stack EXCEPT ![Len(crawl.stack)].k = @ + 1],
                                      Frame(sm_urls[Top.k]))]
                /\ report' = report
           ELSE /\ crawl' = Returned(crawl, Top.rows)
                /\ report' = ReturnedRows(crawl, Top.rows)
    /\ UNCHANGED <<prog, pc, now, site, store, changes, disk>>
    /\ UNCHANGED otherThanCrawl

\* process_sitemap of a urlset: one turn of the loop over the candidates,
\* and the return after the last one
ProcessSitemapPage ==
    /\ prog = "crawl"
    /\ crawl.stack # <<>>
    /\ Top.phase = "pages"
    /\ \E code_p \in {200, 404}, data_p \in 1..MaxVal :
          LET page_url == Top.cands[Top.k].loc
              h == sha256_bytes(data_p)
              prev == db_get_page(store, page_url)
              status == page_status(code_p, prev.content_hash, h)
              per_run_rows == IF status = "Oforandrad" THEN Top.rows
                              ELSE Append(Top.rows, [url |-> page_url, status |-> status])
          IN  /\ code_p = 404 => data_p = 1
              /\ store' = IF status \in {"Ny", "Modifierad"}
                          THEN db_upsert_page(store, page_url, h) ELSE store
              /\ changes' = db_insert_change(changes, page_url, status)
              /\ IF Top.k < Len(Top.cands)
                 THEN /\ crawl' = [crawl EXCEPT !.stack[Len(crawl.stack)].k = @ + 1,
                                                !.stack[Len(crawl.stack)].rows = per_run_rows]
                      /\ report' = report
                 ELSE /\ crawl' = Returned(crawl, per_run_rows)
                      /\ report' = ReturnedRows(crawl, per_run_rows)
    /\ UNCHANGED <<prog, pc, now, site, disk>>
    /\ UNCHANGED otherThanCrawl

\* main after the loop over the sitemaps
CrawlMainEnd ==
    /\ prog = "crawl"
    /\ pc = "main"
    /\ crawl.stack = <<>>
    /\ crawl.todo = <<>>
    /\ disk' = changes_save(ensure_output_sheet(disk), report)
    /\ pc' = "returned"
    /\ UNCHANGED <<prog, now, site, crawl, store, report, changes>>
    /\ UNCHANGED otherThanCrawl

InitCrawl ==
    /\ prog = "crawl"
    /\ pc = "main"
    /\ max_pages = 1
    /\ pageno = 1
    /\ global_pos = 0
    /\ ranks = <<>>
    /\ pages = <<>>
    /\ wbook = NoFile
    /\ now = [date |-> MaxDays, hm |-> 1]
    /\ epc_text = <<>>
    /\ parsed = NoMatch
    /\ iso = <<>>
    /\ rates = <<>>
    /\ unit = 0
    /\ unit_cc = <<>>
    /\ raw = <<>>
    /\ accepted = <<>>
    /\ total_values = <<>>
    /\ cells = <<>>
    /\ saved = <<>>
    /\ html = <<>>
    /\ exit_code = None
    /\ tasks = <<>>
    /\ out_row = <<>>
    /\ disk = NoWorkbook
    /\ mem = <<>>
    /\ writes = <<>>
    /\ acked = <<>>
    /\ store \in PageStores
    /\ report = <<>>
    /\ fetched = <<>>
    /\ site \in Sites
    /\ crawl = [seen |-> {}, fetches |-> [sm \in Sitemaps |-> 0], stack |-> <<>>,
                todo |-> <<"i", "a">>, picked |-> <<>>]
    /\ changes = <<>>
    /\ xlsx = <<>>
    /\ args = <<>>
    /\ monthly = <<>>
    /\ summary = <<>>
    /\ runs = <<>>

NextCrawl ==
    \/ CrawlMainCall
    \/ ProcessSitemapEnter
    \/ ProcessSitemapChild
    \/ ProcessSitemapPage
    \/ CrawlMainEnd

SpecCrawl == InitCrawl /\ [][NextCrawl]_vars

(***************************************************************************)
(* Claims about the sitemap crawl.                                         *)
(***************************************************************************)
\* process_sitemap is about to read a urlset and pick its candidates
Picking ==
    /\ prog = "crawl"
    /\ crawl.stack # <<>>
    /\ Top.phase = "call"
    /\ Top.sm \notin crawl.seen
    /\ site[Top.sm].kind = "urlset"

KnownPage(u) == store[u] # NoPage

\* the rules: unknown, or no lastmod, or lastmod on or after the last fetch
Selected(e) ==
    \/ ~KnownPage(e.loc)
    \/ e.lastmod = <<>>
    \/ e.lastmod[1] >= store[e.loc].last_fetched

\* C21: pick_candidates selects exactly the entries whose URL has no row in
\* the pages table, or whose lastmod is missing, or whose lastmod date is on
\* or after the date of the page's last fetch; a known URL with an earlier
\* lastmod is not selected.
C21_CandidateRules ==
    [][Picking => crawl'.picked = SelectSeq(site[Top.sm].entries, Selected)]_vars

\* a urlset with a known page modified before its last fetch and another
\* page without lastmod: only the second was picked
C21_Witness ==
    /\ prog = "crawl"
    /\ "a" \in crawl.seen
    /\ "j" \notin crawl.seen
    /\ site["a"].entries = <<UrlEntry("p", <<1>>), UrlEntry("q", <<>>)>>
    /\ store["p"].last_fetched = 2
    /\ store["q"] # NoPage
    /\ crawl.picked = <<UrlEntry("q", <<>>)>>

ReportedStatuses == {"Ny", "Modifierad", "Otillganglig"}

InSheet(row) ==
    LET rows == sheet_rows(disk, "databas_incl_changes")
    IN  \E n \in 1..Len(rows) : rows[n] = row

\* C22: at the end of a run of main, every change of status Ny, Modifierad
\* or Otillganglig that the run wrote to a changes table is a row of sheet
\* databas_incl_changes, also when a later child of the same sitemap index
\* could not be downloaded or parsed.
C22_Original ==
    (prog = "crawl" /\ pc = "returned") =>
        \A n \in 1..Len(changes) :
            changes[n].status \in ReportedStatuses => InSheet(changes[n])

AtMostOnce == prog = "crawl" => \A sm \in Sitemaps : crawl.fetches[sm] <= 1

\* the steps a call in progress has left before it returns, its calls of
\* itself not counted
FrameWork(f) ==
    CASE f.phase = "call" -> 1
      [] f.phase = "children" -> 2 * (Len(site[f.sm].sm_urls) - f.k + 1) + 1
      [] OTHER -> Len(f.cands) - f.k + 1

RECURSIVE StackWork(_)
StackWork(st) == IF st = <<>> THEN 0 ELSE FrameWork(Head(st)) + StackWork(Tail(st))

\* a natural number that bounds the steps the run has left
Measure ==
    6 * Cardinality(Sitemaps \ crawl.seen) + 2 * Len(crawl.todo)
    + StackWork(crawl.stack) + (IF pc = "main" THEN 1 ELSE 0)

\* C23: process_sitemap downloads each sitemap URL at most once in a run, and
\* the run terminates for every set of sitemaps, also when a sitemap index
\* lists itself or two indexes list each other: every step of the run
\* lowers a natural number.
C23_HandledOnce == []AtMostOnce /\ [][Measure' < Measure]_vars

\* a run over two sitemap indexes that list each other has returned
C23_Witness ==
    /\ prog = "crawl"
    /\ pc = "returned"
    /\ site["i"] = Index(<<"j", "i">>)
    /\ site["j"] = Index(<<"i">>)
    /\ crawl.fetches["i"] = 1
    /\ crawl.fetches["j"] = 1

(***************************************************************************)
(* The sheets with a header row that grows: sheet EPC of adtraction_epc.py *)
(* and scripts/adtraction_epc_all.py, the country sheets of                *)
(* scripts/adtraction_epc_brands.py and sheet FRCTL_headset of             *)
(* scripts/fractal_scape.py.  A sheet is the sequence of its rows, a row   *)
(* the sequence of its cells; every cell is a text, the empty text for a   *)
(* cell without value.  ws.append writes the row after the last one.       *)
(***************************************************************************)
MaxCats == 2            \* categories of CATEGORIES a run measures
MaxBrands == 2          \* brands of the list a run is given

EmptyCell == ""

Stamp == "2025-01-01 10:00"

XNoFile == [state |-> "nofile", rows |-> <<>>]

XNoSheet == [state |-> "nosheet", rows |-> <<>>]

XSheet(rws) == [state |-> "sheet", rows |-> rws]

Has(seq, x) == \E n \in 1..Len(seq) : seq[n] = x

xl_max_row(rws) == IF Len(rws) = 0 THEN 1 ELSE Len(rws)

RECURSIVE xl_width(_)
xl_width(rws) == IF rws = <<>> THEN 0 ELSE max(Len(Head(rws)), xl_width(Tail(rws)))

xl_max_column(rws) == max(1, xl_width(rws))

\* ws.cell(r, c).value
xl_value(rws, r, c) == IF r <= Len(rws) /\ c <= Len(rws[r]) THEN rws[r][c] ELSE EmptyCell

\* [c.value for c in ws[r]]
xl_row(rws, r) == [c \in 1..xl_max_column(rws) |-> xl_value(rws, r, c)]

\* ws.cell(row=r, column=c, value=v)
xl_cell(rws, r, c, v) ==
    LET grown == [n \in 1..max(Len(rws), r) |-> IF n <= Len(rws) THEN rws[n] ELSE <<>>]
        old == grown[r]
        line == [j \in 1..max(Len(old), c) |->
                    IF j = c THEN v ELSE IF j <= Len(old) THEN old[j] ELSE EmptyCell]
    IN  [grown EXCEPT ![r] = line]

\* the new data row: the time in column 1, "-" in the others
dash_row(width) == [j \in 1..width |-> IF j = 1 THEN Stamp ELSE "-"]

DataRows(w) == IF w.state = "sheet" THEN Len(w.rows) ELSE 0

CATEGORIES == SubSeq(<<"Finans", "Fordon", "Ovrigt">>, 1, MaxCats)

CountryLists == {<<"SE">>, <<"DK">>, <<"SE", "DK">>}

RECURSIVE country_columns(_, _)
country_columns(cc, cats) ==
    IF cats = <<>> THEN <<>>
    ELSE <<Head(cats) \o " (" \o cc \o ")", "#">> \o country_columns(cc, Tail(cats))

RECURSIVE countries_columns(_)
countries_columns(countries) ==
    IF countries = <<>> THEN <<>>
    ELSE country_columns(Head(countries), CATEGORIES) \o countries_columns(Tail(countries))

build_columns(countries) == <<"Datum", "Total", "Total #">> \o countries_columns(countries)

\* for c in columns: if c not in existing: ws.cell(row=1, column=ws.max_column + 1, value=c)
RECURSIVE add_missing(_, _, _)
add_missing(rws, existing, columns) ==
    IF columns = <<>> THEN rws
    ELSE LET c == Head(columns)
             nxt == IF Has(existing, c) THEN rws
                    ELSE xl_cell(rws, 1, xl_max_column(rws) + 1, c)
         IN  add_missing(nxt, existing, Tail(columns))

\* ensure_sheet_and_new_row of the EPC scripts.  max_row of an empty sheet
\* is 1, so the branch of max_row == 0 is never taken; ws[1] of an empty
\* sheet is the one cell A1.
ensure_sheet_and_new_row(w, columns) ==
    IF w.state = "nofile" THEN XSheet(<<columns, dash_row(Len(columns))>>)
    ELSE LET existing == xl_row(w.rows, 1)
             hdr == add_missing(w.rows, existing, columns)
         IN  XSheet(Append(hdr, dash_row(xl_max_column(hdr))))

SkipNames == {"Datum", "Total", "Total #", "#"}

\* build_label_index(headers)[name] as the value column, 0 for a KeyError
build_label_index(headers, name) ==
    LET hits == {n \in 1..Len(headers) :
                    /\ headers[n] = name
                    /\ name # EmptyCell
                    /\ name \notin SkipNames
                    /\ n + 1 <= Len(headers)
                    /\ headers[n + 1] = "#"}
    IN  IF hits = {} THEN 0 ELSE CHOOSE n \in hits : \A m \in hits : m <= n

Labels(columns) == SelectSeq(columns, LAMBDA c : c \notin SkipNames)

\* main: the loop over the units of work, up to the first label that
\* label_to_cols does not have
RECURSIVE write_labels(_, _, _, _)
write_labels(rws, headers, labels, row_idx) ==
    IF labels = <<>> THEN rws
    ELSE LET val_col == build_label_index(headers, Head(labels))
         IN  IF val_col = 0 THEN rws
             ELSE write_labels(xl_cell(xl_cell(rws, row_idx, val_col, "1,0"),
                                       row_idx, val_col + 1, "1"),
                               headers, Tail(labels), row_idx)

\* main of adtraction_epc.py and of scripts/adtraction_epc_all.py for the
\* enabled countries of its configuration
EpcSheetMain ==
    /\ prog = "hdr_epc"
    /\ DataRows(xlsx) < MaxRows
    /\ \E countries \in CountryLists :
          LET columns == build_columns(countries)
              w == ensure_sheet_and_new_row(xlsx, columns)
              headers == xl_row(w.rows, 1)
              labels == Labels(columns)
          IN  /\ xlsx' = XSheet(write_labels(w.rows, headers, labels, Len(w.rows)))
              /\ args' = columns
              /\ pc' = IF \A n \in 1..Len(labels) : build_label_index(headers, labels[n]) # 0
                       THEN "returned" ELSE "raised"
    /\ UNCHANGED prog
    /\ UNCHANGED otherThanHdr

BrandNames == {"A", "B"}

BrandLists == SeqsUpTo(BrandNames, MaxBrands)

\* ensure_sheet_and_new_row of scripts/adtraction_epc_brands.py
ensure_sheet_and_new_row_brands(w) ==
    LET base == IF w.state = "sheet" THEN w.rows ELSE <<<<"Datum">>>>
    IN  XSheet(Append(base, dash_row(xl_max_column(base))))

RECURSIVE add_brands(_, _, _)
add_brands(rws, headers, brand_names) ==
    IF brand_names = <<>> THEN rws
    ELSE LET brand == Head(brand_names)
             named == xl_cell(rws, 1, xl_max_column(rws) + 1, brand)
             nxt == IF Has(headers, brand) THEN rws
                    ELSE xl_cell(named, 1, xl_max_column(named) + 1, "#")
         IN  add_brands(nxt, headers, Tail(brand_names))

ensure_brand_columns(rws, brand_names) == add_brands(rws, xl_row(rws, 1), brand_names)

\* index_maps from column c on: the sheet, value_cols and rank_cols (0 for
\* a brand without entry)
RECURSIVE index_maps(_, _)
index_maps(acc, c) ==
    LET header == xl_value(acc.rows, 1, c)
        paired == IF c + 1 > xl_max_column(acc.rows) \/ xl_value(acc.rows, 1, c + 1) # "#"
                  THEN xl_cell(acc.rows, 1, c + 1, "#") ELSE acc.rows
    IN  IF c > xl_max_column(acc.rows) THEN acc
        ELSE IF header # EmptyCell /\ header \notin {"Datum", "#"}
             THEN index_maps([rows |-> paired,
                              value_cols |-> [acc.value_cols EXCEPT ![header] = c],
                              rank_cols |-> [acc.rank_cols EXCEPT ![header] = c + 1]], c + 2)
             ELSE index_maps(acc, c + 1)

Ranks == <<"1", "2", "3">>

\* main: the cells of the new row for the brands of the header
RECURSIVE write_brands(_, _, _, _, _)
write_brands(rws, maps, known_brands, all_rows, row_idx) ==
    IF known_brands = <<>> THEN rws
    ELSE LET brand == Head(known_brands)
             hits == {n \in 1..Len(all_rows) : all_rows[n] = brand}
             rank == IF hits = {} THEN "-" ELSE Ranks[CHOOSE n \in hits : \A m \in hits : n <= m]
             epc == IF hits = {} THEN "-" ELSE "9,50"
             vcol == maps.value_cols[brand]
             rcol == maps.rank_cols[brand]
             valued == IF vcol # 0 THEN xl_cell(rws, row_idx, vcol, epc) ELSE rws
             ranked == IF rcol # 0 THEN xl_cell(valued, row_idx, rcol, rank) ELSE valued
         IN  write_brands(ranked, maps, Tail(known_brands), all_rows, row_idx)

\* main of scripts/adtraction_epc_brands.py for one country, up to the
\* return of ensure_brand_columns
BrandsEnsure ==
    /\ prog = "hdr_brands"
    /\ pc = "run"
    /\ DataRows(xlsx) < MaxRows
    /\ \E brand_names \in BrandLists :
          /\ xlsx' = XSheet(ensure_brand_columns(ensure_sheet_and_new_row_brands(xlsx).rows,
                                                 brand_names))
          /\ args' = brand_names
    /\ pc' = "index"
    /\ UNCHANGED prog
    /\ UNCHANGED otherThanHdr

\* main of scripts/adtraction_epc_brands.py for one country, from
\* index_maps on
BrandsIndex ==
    /\ prog = "hdr_brands"
    /\ pc = "index"
    /\ LET zero == [b \in BrandNames |-> 0]
           maps == index_maps([rows |-> xlsx.rows, value_cols |-> zero, rank_cols |-> zero], 2)
           headers == xl_row(xlsx.rows, 1)
           known_brands == SelectSeq(headers, LAMBDA h : h # EmptyCell /\ h \notin {"Datum", "#"})
       IN  xlsx' = XSheet(write_brands(maps.rows, maps, known_brands, args, Len(xlsx.rows)))
    /\ pc' = "run"
    /\ UNCHANGED <<prog, args>>
    /\ UNCHANGED otherThanHdr

\* main of scripts/adtraction_epc_brands.py for a country whose list could
\* not be opened: the new row stays as it is
BrandsSkip ==
    /\ prog = "hdr_brands"
    /\ pc = "run"
    /\ DataRows(xlsx) < MaxRows
    /\ xlsx' = ensure_sheet_and_new_row_brands(xlsx)
    /\ UNCHANGED <<prog, pc, args>>
    /\ UNCHANGED otherThanHdr

HEADERS == <<"Datum", "Butik", "Fractal Design Scape Dark", "Fractal Design Scape Light">>

\* save_to_excel of scripts/fractal_scape.py.  delete_rows and insert_rows
\* leave the place of the next ws.append after the last row; after the
\* only row was deleted that place is row 1 or row 2, depending on the
\* release of openpyxl (resets).
scape_save_to_excel(w, row, resets) ==
    LET existing == xl_row(w.rows, 1)
        cleared == IF xl_max_row(w.rows) = 1
                   THEN (IF resets THEN <<>> ELSE << <<>> >>)
                   ELSE << <<>> >> \o w.rows
        sheet == IF w.state # "sheet" THEN <<HEADERS>>
                 ELSE IF existing # HEADERS THEN Append(cleared, HEADERS)
                 ELSE w.rows
    IN  XSheet(Append(sheet, row))

Positions == {EmptyCell, "1", "2"}

\* main of scripts/fractal_scape.py, the two positions given
ScapeMain ==
    /\ prog = "hdr_scape"
    /\ DataRows(xlsx) < MaxRows + 2
    /\ \E dark_pos \in Positions, light_pos \in Positions, resets \in BOOLEAN :
          LET row == <<Stamp, "Newegg", dark_pos, light_pos>>
          IN  /\ xlsx' = scape_save_to_excel(xlsx, row, resets)
              /\ args' = row
    /\ pc' = "returned"
    /\ UNCHANGED prog
    /\ UNCHANGED otherThanHdr

\* a sheet FRCTL_headset of an earlier layout
EarlierLayout == <<"Datum", "Scape Dark rank", "Scape Light rank">>

InitHdr ==
    /\ prog \in {"hdr_epc", "hdr_brands", "hdr_scape"}
    /\ pc = "run"
    /\ max_pages = 1
    /\ pageno = 1
    /\ global_pos = 0
    /\ ranks = <<>>
    /\ pages = <<>>
    /\ wbook = NoFile
    /\ now = [date |-> 1, hm |-> 1]
    /\ epc_text = <<>>
    /\ parsed = NoMatch
    /\ iso = <<>>
    /\ rates = <<>>
    /\ unit = 0
    /\ unit_cc = <<>>
    /\ raw = <<>>
    /\ accepted = <<>>
    /\ total_values = <<>>
    /\ cells = <<>>
    /\ saved = <<>>
    /\ html = <<>>
    /\ exit_code = None
    /\ tasks = <<>>
    /\ out_row = <<>>
    /\ disk = <<>>
    /\ mem = <<>>
    /\ writes = <<>>
    /\ acked = <<>>
    /\ store = <<>>
    /\ report = <<>>
    /\ fetched = <<>>
    /\ site = <<>>
    /\ crawl = <<>>
    /\ changes = <<>>
    /\ xlsx \in {XNoFile, XNoSheet}
               \cup (IF prog = "hdr_scape"
                     THEN {XSheet(<<EarlierLayout>>),
                           XSheet(<<EarlierLayout, <<Stamp, "1", "2">> >>)}
                     ELSE {})
    /\ args = <<>>
    /\ monthly = <<>>
    /\ summary = <<>>
    /\ runs = <<>>

NextHdr ==
    \/ EpcSheetMain
    \/ BrandsEnsure
    \/ BrandsIndex
    \/ BrandsSkip
    \/ ScapeMain

SpecHdr == InitHdr /\ [][NextHdr]_vars

(***************************************************************************)
(* Claims about the header rows.                                           *)
(***************************************************************************)
HeaderRow == xl_row(xlsx.rows, 1)

\* the label has a header column with a "#" column directly after it
Paired(name) ==
    \E n \in 1..(Len(HeaderRow) - 1) : HeaderRow[n] = name /\ HeaderRow[n + 1] = "#"

\* C24: after ensure_sheet_and_new_row(columns), on every sheet earlier runs
\* can have left (runs with a shorter list of countries included), every
\* category label of columns has a header column directly followed by a "#"
\* column, so that build_label_index has every label main looks up.
C24_Original ==
    (prog = "hdr_epc" /\ args # <<>>) =>
        \A n \in 1..Len(args) : args[n] \notin SkipNames => Paired(args[n])

\* C25: after ensure_brand_columns(sheet, brand_names) every brand of
\* brand_names is in the header row exactly once, directly followed by a "#"
\* column, for every list (also one that repeats a brand) and after any
\* number of runs.
C25_Original ==
    (prog = "hdr_brands" /\ pc = "index") =>
        \A n \in 1..Len(args) :
            /\ Cardinality({c \in 1..Len(HeaderRow) : HeaderRow[c] = args[n]}) = 1
            /\ Paired(args[n])

\* C26: after save_to_excel of fractal_scape row 1 of FRCTL_headset is the
\* expected header list, whatever the header was before, every data row
\* written earlier is still in the sheet, and a call that finds the header
\* correct only appends its row.
C26_Original ==
    [][(prog = "hdr_scape" /\ xlsx' # xlsx) =>
          /\ xl_row(xlsx'.rows, 1) = HEADERS
          /\ \A n \in 2..Len(xlsx.rows) : Has(xlsx'.rows, xlsx.rows[n])
          /\ (xlsx.state = "sheet" /\ xl_row(xlsx.rows, 1) = HEADERS)
                => xlsx'.rows = Append(xlsx.rows, args')]_vars

(***************************************************************************)
(* Claims about the rows of the adtraction statistics sheets.              *)
(***************************************************************************)
StatsRun == prog \in {"stats", "stats_root"} /\ pc = "run" /\ pc' = "exited" /\ exit_code' = 0

\* the sheet has a data row with the key of the row the run wants to add
KeyInSheet ==
    \E r \in 1..Len(wbook.rows) :
        IF prog = "stats" THEN wbook.rows[r][1] = strftime(now)
        ELSE wbook.rows[r][1] = strftime([date |-> now.date, hm |-> 7])
             /\ wbook.rows[r][2] = DATASET

DistinctDatum ==
    prog \in {"stats", "stats_root"} =>
        \A r, q \in 1..Len(wbook.rows) : wbook.rows[r][1] = wbook.rows[q][1] => r = q

DiffFromRowAbove ==
    prog = "stats" =>
        \A r \in 1..Len(wbook.rows) :
            wbook.rows[r][4] = IF r = 1 THEN [none |-> TRUE, n |-> 0]
                               ELSE [none |-> FALSE, n |-> wbook.rows[r][2] - wbook.rows[r - 1][2]]

\* C27: append_row_xlsx appends its row only when no data row has the same
\* Datum (adtraction_stats.py: the same datum and dataset) and otherwise
\* leaves the workbook as it is; no two data rows ever share a Datum, and in
\* scripts/adtraction_stats.py the Diff of a row is its Konverteringar minus
\* the Konverteringar of the row above it, empty for the first data row.
C27_AppendOncePerDatum ==
    /\ [](DistinctDatum /\ DiffFromRowAbove)
    /\ [][StatsRun =>
            IF KeyInSheet THEN wbook' = wbook
            ELSE /\ Len(wbook'.rows) = Len(wbook.rows) + 1
                 /\ \A r \in 1..Len(wbook.rows) : wbook'.rows[r] = wbook.rows[r]
                 /\ wbook'.rows[Len(wbook'.rows)][1] =
                       (IF prog = "stats" THEN strftime(now)
                        ELSE strftime([date |-> now.date, hm |-> 7]))]_vars

\* two rows are in the sheet, the second with its Diff, and the last run,
\* in the minute of the second row, fetched another number and added nothing
C27_Witness ==
    /\ prog = "stats"
    /\ pc = "exited"
    /\ exit_code = 0
    /\ Len(wbook.rows) = 2
    /\ wbook.rows[2][1] = strftime(now)
    /\ wbook.rows[2][4] = [none |-> FALSE, n |-> 1]
    /\ html.num["Konverteringar"] # wbook.rows[2][2]

(***************************************************************************)
(* run_monthly.py: main calls run_script for the scripts of SCRIPTS one    *)
(* after the other.                                                        *)
(***************************************************************************)
SCRIPTS == <<"fractal_trends.py", "soder_trends.py", "rugvista_trends.py">>

ScriptNames == {SCRIPTS[n] : n \in 1..Len(SCRIPTS)}

\* the exit codes of a started script
ReturnCodes == {0, 1, 2}

\* the outcome of a call for a script that was not started
NotStarted == [started |-> FALSE, returncode |-> 0, ok |-> FALSE]

\* a run_script that takes every script that was started for a success
run_script_lenient(script, in_place, returncode) ==
    IF script \notin in_place THEN NotStarted
    ELSE [started |-> TRUE, returncode |-> returncode, ok |-> TRUE]

\* run_script: the script is started when its file exists, and the call
\* returns True when it exited with code 0 (check=True raises
\* CalledProcessError otherwise)
run_script(script, in_place, returncode) ==
    IF script \notin in_place THEN NotStarted
    ELSE [started |-> TRUE, returncode |-> returncode, ok |-> returncode = 0]

\* main: one turn of the loop over SCRIPTS
MonthlyTurn ==
    /\ prog = "monthly"
    /\ pc = "run"
    /\ Len(monthly.calls) < Len(SCRIPTS)
    /\ \E returncode \in ReturnCodes :
          LET script == SCRIPTS[Len(monthly.calls) + 1]
              res == run_script(script, monthly.in_place, returncode)
          IN  /\ script \notin monthly.in_place => returncode = 0
              /\ monthly' = [monthly EXCEPT
                                !.calls = Append(@, [script |-> script, res |-> res]),
                                !.all_ok = @ /\ res.ok]
    /\ UNCHANGED <<prog, pc>>
    /\ UNCHANGED otherThanMonthly

\* main after the loop: the line that sums the run up
MonthlyEnd ==
    /\ prog = "monthly"
    /\ pc = "run"
    /\ Len(monthly.calls) = Len(SCRIPTS)
    /\ monthly' = [monthly EXCEPT !.printed = IF monthly.all_ok THEN "Alla scripts kordes utan fel!"
                                              ELSE "Nagot script misslyckades, se ovan."]
    /\ pc' = "returned"
    /\ UNCHANGED prog
    /\ UNCHANGED otherThanMonthly

InitMonthly ==
    /\ prog = "monthly"
    /\ pc = "run"
    /\ max_pages = 1
    /\ pageno = 1
    /\ global_pos = 0
    /\ ranks = <<>>
    /\ pages = <<>>
    /\ wbook = NoFile
    /\ now = [date |-> 1, hm |-> 1]
    /\ epc_text = <<>>
    /\ parsed = NoMatch
    /\ iso = <<>>
    /\ rates = <<>>
    /\ unit = 0
    /\ unit_cc = <<>>
    /\ raw = <<>>
    /\ accepted = <<>>
    /\ total_values = <<>>
    /\ cells = <<>>
    /\ saved = <<>>
    /\ html = <<>>
    /\ exit_code = None
    /\ tasks = <<>>
    /\ out_row = <<>>
    /\ disk = <<>>
    /\ mem = <<>>
    /\ writes = <<>>
    /\ acked = <<>>
    /\ store = <<>>
    /\ report = <<>>
    /\ fetched = <<>>
    /\ site = <<>>
    /\ crawl = <<>>
    /\ changes = <<>>
    /\ xlsx = <<>>
    /\ args = <<>>
    /\ summary = <<>>
    /\ runs = <<>>
    /\ \E in_place \in SUBSET ScriptNames :
          monthly = [in_place |-> in_place, calls |-> <<>>, all_ok |-> TRUE, printed |-> ""]

NextMonthly ==
    \/ MonthlyTurn
    \/ MonthlyEnd

SpecMonthly == InitMonthly /\ [][NextMonthly]_vars

(***************************************************************************)
(* Claims about run_monthly.py.                                            *)
(***************************************************************************)
\* the scripts that were started, in the order of their start
StartedScripts ==
    LET began == SelectSeq(monthly.calls, LAMBDA c : c.res.started)
    IN  [n \in 1..Len(began) |-> began[n].script]

\* run_script was called for the first scripts of SCRIPTS, once each, in
\* the listed order
CalledInOrder ==
    /\ Len(monthly.calls) <= Len(SCRIPTS)
    /\ \A n \in 1..Len(monthly.calls) : monthly.calls[n].script = SCRIPTS[n]

EveryScriptSucceeded ==
    \A n \in 1..Len(monthly.calls) :
        monthly.calls[n].res.started /\ monthly.calls[n].res.returncode = 0

SummaryRight ==
    monthly.printed = IF EveryScriptSucceeded THEN "Alla scripts kordes utan fel!"
                      ELSE "Nagot script misslyckades, se ovan."

\* C28: main takes every script of SCRIPTS exactly once, in the listed
\* order, also when an earlier script is missing or exits with a code other
\* than 0: every script whose file is in place is started exactly once (a
\* missing one is reported and cannot be started); the all-succeeded line
\* is printed exactly when every script ran and exited with code 0, the
\* failure line otherwise.
C28_EveryScriptCalled ==
    prog = "monthly" =>
        /\ CalledInOrder
        /\ StartedScripts = SelectSeq(SubSeq(SCRIPTS, 1, Len(monthly.calls)),
                                      LAMBDA s : s \in monthly.in_place)
        /\ pc = "returned" => (Len(monthly.calls) = Len(SCRIPTS) /\ SummaryRight)

\* the first script is missing, the second exits with code 1, the third is
\* started all the same and succeeds, and the failure line is printed
C28_Witness ==
    /\ prog = "monthly"
    /\ pc = "returned"
    /\ monthly.in_place = {"soder_trends.py", "rugvista_trends.py"}
    /\ monthly.calls[2].res.returncode = 1
    /\ monthly.calls[3].res = [started |-> TRUE, returncode |-> 0, ok |-> TRUE]
    /\ monthly.printed = "Nagot script misslyckades, se ovan."

(***************************************************************************)
(* Claims about the summary line of scripts/fractal_refine.py.             *)
(***************************************************************************)
\* the cell save_to_excel wrote under a variant's label in this run
SheetCell(label) ==
    LET k == CHOOSE i \in 1..Len(REFINE_HEADERS) : REFINE_HEADERS[i] = label
    IN  saved[Len(saved)][k]

\* a field of the summary shows what the cell holds
SameAsCell(field, written) ==
    IF written.dash THEN field.kind = "dash"
    ELSE field.kind = "num" /\ field.n = written.n

\* C29: when main has printed its summary line, the line shows for each of
\* the five variants the position save_to_excel wrote to the sheet in that
\* run: the number when the variant was found, the dash when it was not.
C29_Original ==
    (prog = "scripts_refine" /\ pc = "printed") =>
        \A label \in DOMAIN SUMMARY_KEYS :
            /\ SameAsCell(summary[label], SheetCell(label))
            /\ (ranks[label] # None) <=> (summary[label].kind = "num")

\* what does hold: the sheet has the position of every variant found and the
\* dash for the others, and the summary line shows the dash for every
\* variant, found or not
C29_SheetRightSummaryDashes ==
    (prog = "scripts_refine" /\ pc = "printed") =>
        \A label \in DOMAIN SUMMARY_KEYS :
            /\ SheetCell(label) = rank_cell(ranks[label])
            /\ summary[label] = DashField

\* a run that found Fabric Dark and printed its summary
C29_Found ==
    /\ prog = "scripts_refine"
    /\ pc = "printed"
    /\ ranks["Fabric Dark"] # None
(***************************************************************************)
(* scripts/rugvista_aov.py, scripts/benuta_aov.py and                      *)
(* scripts/trendcarpet_aov.py on one day: each script runs once, in any    *)
(* order, on a data.xlsx that is missing or has no sheet RUGV_aov.         *)
(***************************************************************************)
RUGVISTA == [name |-> "rugvista", l100 |-> "RugVista 100", l50 |-> "RugVista 50",
             cols |-> <<"Datum", "RugVista 100", "RugVista 50">>]

\* pd.DataFrame([row], columns=cols).to_excel of rugvista_aov: the header and the row
rugvista_to_excel(timestamp_str, aov_int, aov_top50_int) ==
    [state |-> "sheet", hdr |-> RUGVISTA.cols,
     rows |-> << <<timestamp_str, aov_int, aov_top50_int>> >>]

\* append_to_excel of rugvista_aov: A1, B1 and C1 are set to its labels and
\* the row goes below the last row of the sheet; nothing looks for a row of
\* the same date.  (The pandas fallback is for exceptions of openpyxl, which
\* the cell writes of the model do not raise.)
rugvista_append_to_excel(wb, timestamp_str, aov_int, aov_top50_int) ==
    IF wb.state \in {"nofile", "nosheet"}
    THEN rugvista_to_excel(timestamp_str, aov_int, aov_top50_int)
    ELSE LET h1 == header_cell(wb, 1, RUGVISTA.cols[1])
             h2 == header_cell(h1, 2, RUGVISTA.cols[2])
             h3 == header_cell(h2, 3, RUGVISTA.cols[3])
             next_row == IF max_row(wb) = 1 /\ (Len(wb.hdr) = 0 \/ wb.hdr[1] = "")
                         THEN 2 ELSE max_row(wb) + 1
             a == cell(h3, next_row, 1, timestamp_str)
             b == cell(a, next_row, 2, aov_int)
         IN  cell(b, next_row, 3, aov_top50_int)

\* the averages of a run that found prices
FoundAov == 1..MaxVal

HasRun(name) == \E k \in 1..Len(runs) : runs[k].name = name

Ran(S, aov100, aov50) == Append(runs, [name |-> S.name, v100 |-> aov100, v50 |-> aov50])

\* main of rugvista_aov with prices found
SharedRugvista ==
    /\ prog = "shared"
    /\ ~HasRun(RUGVISTA.name)
    /\ \E aov \in FoundAov, aov_top50 \in FoundAov :
          /\ wbook' = rugvista_append_to_excel(wbook, strftime(now), aov, aov_top50)
          /\ runs' = Ran(RUGVISTA, aov, aov_top50)
    /\ UNCHANGED <<prog, pc, now>>
    /\ UNCHANGED otherThanShared

\* main of benuta_aov with prices found
SharedBenuta ==
    /\ prog = "shared"
    /\ ~HasRun(BENUTA.name)
    /\ \E aov100 \in FoundAov, aov50 \in FoundAov :
          /\ wbook' = main(BENUTA, wbook, now, aov100, aov50)
          /\ runs' = Ran(BENUTA, aov100, aov50)
    /\ UNCHANGED <<prog, pc, now>>
    /\ UNCHANGED otherThanShared

\* main of trendcarpet_aov with prices found
SharedTrendcarpet ==
    /\ prog = "shared"
    /\ ~HasRun(TRENDCARPET.name)
    /\ \E aov100 \in FoundAov, aov50 \in FoundAov :
          /\ wbook' = main(TRENDCARPET, wbook, now, aov100, aov50)
          /\ runs' = Ran(TRENDCARPET, aov100, aov50)
    /\ UNCHANGED <<prog, pc, now>>
    /\ UNCHANGED otherThanShared

\* a minute of the same day passes
SharedTick ==
    /\ prog = "shared"
    /\ now.hm < MaxMinute
    /\ now' = [now EXCEPT !.hm = now.hm + 1]
    /\ UNCHANGED <<prog, pc, wbook, runs>>
    /\ UNCHANGED otherThanShared

InitShared ==
    /\ prog = "shared"
    /\ pc = "run"
    /\ max_pages = 1
    /\ pageno = 1
    /\ global_pos = 0
    /\ ranks = <<>>
    /\ pages = <<>>
    /\ wbook \in {NoFile, NoSheet}
    /\ now = [date |-> 1, hm |-> 1]
    /\ epc_text = <<>>
    /\ parsed = NoMatch
    /\ iso = <<>>
    /\ rates = <<>>
    /\ unit = 0
    /\ unit_cc = <<>>
    /\ raw = <<>>
    /\ accepted = <<>>
    /\ total_values = <<>>
    /\ cells = <<>>
    /\ saved = <<>>
    /\ html = <<>>
    /\ exit_code = None
    /\ tasks = <<>>
    /\ out_row = <<>>
    /\ disk = <<>>
    /\ mem = <<>>
    /\ writes = <<>>
    /\ acked = <<>>
    /\ store = <<>>
    /\ report = <<>>
    /\ fetched = <<>>
    /\ site = <<>>
    /\ crawl = <<>>
    /\ changes = <<>>
    /\ xlsx = <<>>
    /\ args = <<>>
    /\ monthly = <<>>
    /\ summary = <<>>
    /\ runs = <<>>

NextShared ==
    \/ SharedRugvista
    \/ SharedBenuta
    \/ SharedTrendcarpet
    \/ SharedTick

SpecShared == InitShared /\ [][NextShared]_vars

(***************************************************************************)
(* Claims about the shared sheet RUGV_aov.                                 *)
(***************************************************************************)
SharedScripts == {RUGVISTA.name, BENUTA.name, TRENDCARPET.name}

Labels100and50(name) ==
    CASE name = RUGVISTA.name -> <<RUGVISTA.l100, RUGVISTA.l50>>
      [] name = BENUTA.name -> <<BENUTA.l100, BENUTA.l50>>
      [] name = TRENDCARPET.name -> <<TRENDCARPET.l100, TRENDCARPET.l50>>

AllThreeRan == {runs[k].name : k \in 1..Len(runs)} = SharedScripts

\* the data rows of today's date
RowsOfToday ==
    {r \in 1..Len(wbook.rows) : _parse_excel_date(wbook.rows[r][1]) = now.date}

\* the value is in a row of today under the (only) column with the label
StoredUnder(label, value) ==
    /\ Cardinality({c \in 1..Len(wbook.hdr) : wbook.hdr[c] = label}) = 1
    /\ \A r \in RowsOfToday : wbook.rows[r][headers_get(wbook, label)] = value

EveryValueUnderItsLabel ==
    \A k \in 1..Len(runs) :
        /\ StoredUnder(Labels100and50(runs[k].name)[1], runs[k].v100)
        /\ StoredUnder(Labels100and50(runs[k].name)[2], runs[k].v50)

\* C30: when the three scripts have each run once on the same day, in any
\* order, the sheet has exactly one data row for that date and the row holds
\* every script's values under that script's own labels (so what is stored
\* under a label depends on the values only, never on the order of the runs).
C30_Original ==
    (prog = "shared" /\ AllThreeRan) =>
        /\ Cardinality(RowsOfToday) = 1
        /\ EveryValueUnderItsLabel

\* what does hold: the claim for the orders that begin with rugvista_aov
C30_RugvistaFirst ==
    (prog = "shared" /\ AllThreeRan /\ runs[1].name = RUGVISTA.name) =>
        /\ Cardinality(RowsOfToday) = 1
        /\ EveryValueUnderItsLabel

\* rugvista_aov ran after another script of the day
C30_RugvistaLater ==
    /\ prog = "shared"
    /\ AllThreeRan
    /\ runs[1].name # RUGVISTA.name

\* all three ran and no header cell carries trendcarpet_aov's second label
C30_LabelLost ==
    /\ prog = "shared"
    /\ AllThreeRan
    /\ headers_get(wbook, TRENDCARPET.l50) = None
====
